---- MODULE Spec2Model ----
(***************************************************************************)
(* Model of darktable's shortcut engine (src/gui/accelerators.c): the      *)
(* binding store ordered by shortcut_compare_func, insert_shortcut and     *)
(* remove_shortcut with the up/down split of move bindings, the re-sort on *)
(* a view change, the shortcutsrc save/load codec and the key press /      *)
(* release state machine that classifies double, triple and long presses.  *)
(***************************************************************************)
EXTENDS Integers, Sequences, FiniteSets, TLC

(***************************************************************************)
(* Bounds of the model.                                                    *)
(***************************************************************************)
\* largest number of bindings the store is allowed to grow to
MaxStore == 3
\* largest event timestamp of the key state machine
MaxTime == 7

\* the double-click interval of GTK (gtk-double-click-time), in ticks
Delay == 2

\* the cells of the shortcuts dialog that are edited
MaxEdits == 2
\* the entries the store holds at most when the slots are compared
MaxSlots == 3
\* the module instances the pipe holds at most
MaxInstances == 3
MaxMapped == 2

\* the lib modules that register an input driver
MaxDrivers == 4
\* the timeouts that can be pending at a time
MaxSources == 2

(***************************************************************************)
(* dt_shortcut_flag_t (declared in gui/accelerators.h).  The source adds   *)
(* PRESS_DOUBLE to a double press to obtain a triple press (line 2238) and *)
(* shifts BUTTON_LEFT by the button number (line 2438); the direction bits *)
(* are the last two of the enumeration.                                    *)
(***************************************************************************)
DT_SHORTCUT_FLAG_PRESS_DOUBLE == 1
DT_SHORTCUT_FLAG_PRESS_TRIPLE == 2
DT_SHORTCUT_FLAG_PRESS_LONG == 4
DT_SHORTCUT_FLAG_BUTTON_LEFT == 8
DT_SHORTCUT_FLAG_BUTTON_MIDDLE == 16
DT_SHORTCUT_FLAG_BUTTON_RIGHT == 32
DT_SHORTCUT_FLAG_CLICK_DOUBLE == 64
DT_SHORTCUT_FLAG_CLICK_TRIPLE == 128
DT_SHORTCUT_FLAG_CLICK_LONG == 256
DT_SHORTCUT_FLAG_DIR_UP == 512
DT_SHORTCUT_FLAG_DIR_DOWN == 1024

DT_SHORTCUT_FLAG_PRESS_MASK ==
  DT_SHORTCUT_FLAG_PRESS_TRIPLE + DT_SHORTCUT_FLAG_PRESS_DOUBLE + DT_SHORTCUT_FLAG_PRESS_LONG
DT_SHORTCUT_FLAG_BUTTON_MASK ==
  DT_SHORTCUT_FLAG_BUTTON_LEFT + DT_SHORTCUT_FLAG_BUTTON_MIDDLE + DT_SHORTCUT_FLAG_BUTTON_RIGHT
DT_SHORTCUT_FLAG_CLICK_MASK ==
  DT_SHORTCUT_FLAG_CLICK_TRIPLE + DT_SHORTCUT_FLAG_CLICK_DOUBLE + DT_SHORTCUT_FLAG_CLICK_LONG
DT_SHORTCUT_FLAG_DIR_MASK ==
  DT_SHORTCUT_FLAG_DIR_UP + DT_SHORTCUT_FLAG_DIR_DOWN

\* effect indices of dt_shortcut_t
DT_SHORTCUT_EFFECT_DEFAULT_MOVE == -1
DT_SHORTCUT_EFFECT_DEFAULT_KEY == 0

DT_SHORTCUT_DEVICE_KEYBOARD_MOUSE == 0
DT_SHORTCUT_MOVE_NONE == 0
DT_SHORTCUT_MOVE_SCROLL == 1
DT_SHORTCUT_MOVE_PAN == 2
DT_SHORTCUT_MOVE_HORIZONTAL == 3
DT_SHORTCUT_MOVE_VERTICAL == 4
DT_SHORTCUT_MOVE_DIAGONAL == 5
DT_SHORTCUT_MOVE_SKEW == 6

\* dt_view_type_flags_t (declared in views/view.h)
DT_VIEW_LIGHTTABLE == 1
DT_VIEW_DARKROOM == 2

\* GdkModifierType (named at line 210)
GDK_CONTROL_MASK == 4

(***************************************************************************)
(* Bit operations of C on non-negative integers.                           *)
(***************************************************************************)
RECURSIVE AndOfBits(_, _)
AndOfBits(a, b) ==
  IF a = 0 \/ b = 0 THEN 0
  ELSE (a % 2) * (b % 2) + 2 * AndOfBits(a \div 2, b \div 2)

RECURSIVE XorOfBits(_, _)
XorOfBits(a, b) ==
  IF a = 0 THEN b
  ELSE IF b = 0 THEN a
  ELSE ((a + b) % 2) + 2 * XorOfBits(a \div 2, b \div 2)

\* the operations on four bits, tabulated
AndOfNibbles == [a \in 0..15 |-> [b \in 0..15 |-> AndOfBits(a, b)]]
XorOfNibbles == [a \in 0..15 |-> [b \in 0..15 |-> XorOfBits(a, b)]]

RECURSIVE BitAnd(_, _)
BitAnd(a, b) ==
  IF a = 0 \/ b = 0 THEN 0
  ELSE IF a = b THEN a
  ELSE AndOfNibbles[a % 16][b % 16] + 16 * BitAnd(a \div 16, b \div 16)

RECURSIVE BitXor(_, _)
BitXor(a, b) ==
  IF a = 0 THEN b
  ELSE IF b = 0 THEN a
  ELSE IF a = b THEN 0
  ELSE XorOfNibbles[a % 16][b % 16] + 16 * BitXor(a \div 16, b \div 16)

BitOr(a, b) == a + b - BitAnd(a, b)

\* a & ~m
BitClear(a, m) == a - BitAnd(a, m)

(***************************************************************************)
(* The actions bindings refer to.  find_views derives a binding's views    *)
(* from the type of the first non-section owner of its action: an action   *)
(* of a lib module shown in lighttable and darkroom, a slider and a combo  *)
(* of an image operation (darkroom only), and two sliders below plain      *)
(* sections of the root, whose views stay empty (fallbacks).               *)
(***************************************************************************)
Actions == {"lib/combo", "iop/slider", "iop/combo", "sect/one", "sect/two"}

\* the actions dt_action_locate makes for the paths of a shortcutsrc that name
\* no action: a closure below the lib module and one below its combo
Created ==
  {"lib/more", "lib/combo/more", "lib/zoom", "lib/zoom/more", "lib/zoom-", "lib/fit-",
   "lib/zoom-/more"}

\* the action dt_action_define_key_pressed_accel makes below the lib module
KeyPressed == {"lib/accel"}

\* the type of the first owner of the action that is not a section
OwnerType ==
  [a \in Actions \cup Created \cup KeyPressed |->
     CASE a \in {"lib/combo", "lib/accel"} \cup (Created \ {"lib/combo/more"}) -> "lib"
       [] a \in {"iop/slider", "iop/combo"} -> "iop"
       [] OTHER -> "none"]

\* the views a lib module reports (lib->views)
LibViews == DT_VIEW_LIGHTTABLE + DT_VIEW_DARKROOM

\* action->type
ActionType ==
  [a \in Actions \cup Created \cup KeyPressed |->
     IF a \in KeyPressed THEN "key_pressed"
     ELSE IF a \in Created THEN "closure"
     ELSE IF a \in {"lib/combo", "iop/combo"} THEN "combo" ELSE "slider"]

Views == {DT_VIEW_LIGHTTABLE, DT_VIEW_DARKROOM}

VARIABLES
  shortcuts,        \* darktable.control->shortcuts, the GSequence of dt_shortcut_t
  view,             \* the view of the view manager (the active view)
  live,             \* the actions that have not been deleted
  crashed,          \* insert or remove dereferenced the end of the sequence
  last,             \* what the last operation was and what it returned
  shortcutsrc,      \* the lines of the file shortcutsrc
  edits,            \* how many cells of the shortcuts dialog have been edited
  order,            \* three bindings, a view, and how the comparator orders them
  pressed_keys,     \* the list of the keys that are down
  _sc,              \* the shortcut under construction
  _last_time,       \* the time of the last key press
  _timeout_source,  \* the id of the pending timeout, 0 when there is none
  sources,          \* the timeouts of g_timeout_add that have not fired yet
  _pressed_button,  \* the button flags of the presses the dispatcher has seen
  buttons,          \* the mouse buttons that are down
  move_start_x,     \* where the pointer move began (a fraction n / d)
  move_start_y,     \* where the pointer move began
  pointer,          \* the last scroll or motion event and the moves it sent
  now,              \* the time of the event loop
  actions,          \* darktable.control->actions, the tree of the actions
  read,             \* the line dt_shortcuts_load read last and what it did with it
  call,             \* the last call of insert_shortcut: the descriptor, the mode, the
                    \* prompts, the flags of the descriptor when it returned, the
                    \* widget that was to be mapped and whether its action was
                    \* looked up for the call
  iop,              \* darktable.develop->iop, the list of the module instances
  mapped,           \* the binding process_mapping found last, the instance it took
  input_drivers,    \* darktable.control->input_drivers, the list of the drivers
  given,            \* the device ids dt_register_input_driver has returned
  mapping_widget,   \* darktable.control->mapping_widget, the widget to be mapped
  streak,           \* the run of quick presses of one key that is under way
  out               \* the flags of the gesture the last step dispatched, or -1

storeVars == <<shortcuts, view, live, crashed, last, shortcutsrc, edits>>

keyVars ==
  <<pressed_keys, _sc, _last_time, _timeout_source, sources, _pressed_button,
    buttons, move_start_x, move_start_y, pointer, now, streak, out>>

motionVars == <<move_start_x, move_start_y, pointer>>

devVars == <<actions, read, call, iop, mapped, input_drivers, given, mapping_widget>>

vars == <<storeVars, order, devVars, keyVars>>

(***************************************************************************)
(* shortcut_compare_func                                                   *)
(***************************************************************************)
\* the group of a binding if lines 226-227 gave a fallback the group 0
InViewFallbackZero(s, active_view) ==
  IF s.views # 0 THEN BitAnd(s.views, active_view) ELSE 0

InView(s, active_view) ==
  IF s.views # 0 THEN BitAnd(s.views, active_view) ELSE -1

shortcut_compare_func(a, b, active_view) ==
  LET a_in_view == InView(a, active_view)
      b_in_view == InView(b, active_view)
      differ == BitXor(a.flags, b.flags)
  IN IF a_in_view # b_in_view THEN b_in_view - a_in_view
     ELSE IF a.key_device # b.key_device THEN a.key_device - b.key_device
     ELSE IF a.key # b.key THEN a.key - b.key
     ELSE IF BitClear(differ, DT_SHORTCUT_FLAG_DIR_MASK) # 0
       THEN a.flags - b.flags
     ELSE IF a.move_device # b.move_device THEN a.move_device - b.move_device
     ELSE IF a.move # b.move THEN a.move - b.move
     ELSE IF a.mods # b.mods THEN a.mods - b.mods
     ELSE IF BitXor(differ, DT_SHORTCUT_FLAG_DIR_MASK) = 0
       THEN a.flags - b.flags
     ELSE 0

_shortcut_is_move(s) ==
  /\ (s.move_device # 0 \/ s.move # 0)
  /\ BitAnd(s.flags, DT_SHORTCUT_FLAG_DIR_MASK) = 0

find_views(s) ==
  [s EXCEPT !.views = CASE OwnerType[s.action] = "iop" -> DT_VIEW_DARKROOM
                        [] OwnerType[s.action] = "lib" -> LibViews
                        [] OTHER -> 0]

(***************************************************************************)
(* GSequence.  The sequence is a balanced tree whose shape depends on the  *)
(* addresses of its nodes, so a search may take any node of a range as the *)
(* root of that range.                                                     *)
(***************************************************************************)
RemoveAt(q, i) == [j \in 1..(Len(q) - 1) |-> IF j < i THEN q[j] ELSE q[j + 1]]

InsertAt(q, p, x) ==
  [j \in 1..(Len(q) + 1) |-> IF j < p THEN q[j] ELSE IF j = p THEN x ELSE q[j - 1]]

\* g_sequence_insert_sorted: the places node_find_closest can stop at
InsertPositions(q, x, v) ==
  {p \in 1..(Len(q) + 1) :
     /\ p = 1 \/ shortcut_compare_func(q[p - 1], x, v) <= 0
     /\ p = Len(q) + 1 \/ shortcut_compare_func(q[p], x, v) > 0}

\* g_sequence_lookup: an index of an entry that compares equal, or 0 for NULL
LookupResults(q, x, v) ==
  {r \in 1..Len(q) : shortcut_compare_func(q[r], x, v) = 0}
  \cup
  (IF \E p \in 1..(Len(q) + 1) :
        /\ p = 1 \/ shortcut_compare_func(q[p - 1], x, v) < 0
        /\ p = Len(q) + 1 \/ shortcut_compare_func(q[p], x, v) > 0
   THEN {0} ELSE {})

\* g_sequence_sort: every node is taken out and inserted again, in order
RECURSIVE SortFrom(_, _, _, _)
SortFrom(done, q, k, v) ==
  IF k > Len(q) THEN {done}
  ELSE UNION {SortFrom(InsertAt(done, p, q[k]), q, k + 1, v) :
                p \in InsertPositions(done, q[k], v)}

g_sequence_sort(q, v) == SortFrom(<<>>, q, 1, v)

(***************************************************************************)
(* remove_shortcut: [q, crashed]                                           *)
(***************************************************************************)
SiblingIsPrevious(q, i) ==
  LET s == [q[i] EXCEPT !.flags = BitClear(@, DT_SHORTCUT_FLAG_DIR_MASK)]
  IN i # 1 /\ shortcut_compare_func(s, q[i - 1], s.views) = 0

remove_shortcut(q, i) ==
  IF BitAnd(q[i].flags, DT_SHORTCUT_FLAG_DIR_MASK) # 0
  THEN LET o == IF SiblingIsPrevious(q, i) THEN i - 1 ELSE i + 1
       IN IF o > Len(q)
          THEN [q |-> q, crashed |-> TRUE]
          ELSE [q |-> RemoveAt([q EXCEPT ![o].flags =
                                   BitClear(@, DT_SHORTCUT_FLAG_DIR_MASK)], i),
                crashed |-> FALSE]
  ELSE [q |-> RemoveAt(q, i), crashed |-> FALSE]

\* add_shortcut: the stores g_sequence_insert_sorted can produce, each with the
\* place the new entry is at
add_shortcut(q, s, v) ==
  {[q |-> InsertAt(q, p, s), at |-> p] : p \in InsertPositions(q, s, v)}

(***************************************************************************)
(* insert_shortcut.  An outcome says whether the function has returned     *)
(* (done), what it returned (ret), the store it leaves (q), which prompts  *)
(* it showed (asked), whether one of them was answered no (declined), how  *)
(* an entry was added (how), the place of the added entry (at), the place  *)
(* of the entry it was split from (sib) and the flags it leaves in the     *)
(* caller's descriptor.                                                    *)
(***************************************************************************)
Continue(q, labels) ==
  [done |-> FALSE, q |-> q, labels |-> labels, ret |-> FALSE, crashed |-> FALSE,
   asked |-> {}, declined |-> FALSE, how |-> "none", at |-> 0, sib |-> 0,
   flags |-> 0]

Return(q, ret, how, asked, declined, flags) ==
  [done |-> TRUE, q |-> q, labels |-> FALSE, ret |-> ret, crashed |-> FALSE,
   asked |-> asked, declined |-> declined, how |-> how, at |-> 0, sib |-> 0,
   flags |-> flags]

Added(n, how, sib, asked, flags) ==
  [done |-> TRUE, q |-> n.q, labels |-> FALSE, ret |-> TRUE, crashed |-> FALSE,
   asked |-> asked, declined |-> FALSE, how |-> how, at |-> n.at,
   sib |-> IF sib = 0 THEN 0 ELSE IF n.at <= sib THEN sib + 1 ELSE sib,
   flags |-> flags]

Crash(q, asked) ==
  [done |-> TRUE, q |-> q, labels |-> FALSE, ret |-> FALSE, crashed |-> TRUE,
   asked |-> asked, declined |-> FALSE, how |-> "none", at |-> 0, sib |-> 0,
   flags |-> 0]

SettingsDiffer(e, s) ==
  \/ e.element # s.element
  \/ e.effect # s.effect
  \/ e.speed # s.speed
  \/ e.instance # s.instance

\* the direction an existing move binding gets when it is split (line 753)
SplitDirection(s) ==
  IF BitAnd(s.flags, DT_SHORTCUT_FLAG_DIR_UP) # 0
  THEN DT_SHORTCUT_FLAG_DIR_DOWN ELSE DT_SHORTCUT_FLAG_DIR_UP

\* lines 744-789: the entry at i is bound to the action of s; yes is the answer
\* to the prompt, which is not shown when a file is loaded
Answered(q, i, s, P, yes) ==
  LET e == q[i]
      shown == IF P.confirm THEN P.asked \cup {"same"} ELSE P.asked
  IN IF _shortcut_is_move(e) /\ e.effect # DT_SHORTCUT_EFFECT_DEFAULT_MOVE
     THEN IF yes
          THEN LET e2 == [e EXCEPT !.flags = BitOr(@, SplitDirection(s))]
                   s2 == [s EXCEPT !.effect =
                            IF @ = DT_SHORTCUT_EFFECT_DEFAULT_MOVE
                            THEN DT_SHORTCUT_EFFECT_DEFAULT_KEY ELSE @]
               IN {Added(n, "split", i, shown, P.s.flags) :
                     n \in add_shortcut([q EXCEPT ![i] = e2], s2, P.view)}
          ELSE {Return(q, FALSE, "none", shown, TRUE, P.s.flags)}
     ELSE IF SettingsDiffer(e, s)
     THEN IF yes
          THEN {Return([q EXCEPT ![i] = [e EXCEPT !.element = s.element,
                                                  !.effect = s.effect,
                                                  !.speed = s.speed,
                                                  !.instance = s.instance]],
                       FALSE, "reset", shown, FALSE, P.s.flags)}
          ELSE {Return(q, FALSE, "none", shown, TRUE, P.s.flags)}
     ELSE IF P.confirm
     THEN IF yes
          THEN LET r == remove_shortcut(q, i)
               IN IF r.crashed THEN {Crash(q, shown)}
                  ELSE {Return(r.q, FALSE, "removed", shown, FALSE, P.s.flags)}
          ELSE {Return(q, FALSE, "none", shown, TRUE, P.s.flags)}
     ELSE {Return(q, FALSE, "none", shown, FALSE, P.s.flags)}

SameAction(q, i, s, P) ==
  UNION {Answered(q, i, s, P, yes) : yes \in IF P.confirm THEN BOOLEAN ELSE {TRUE}}

\* lines 738-808: the do-while over the entries that compare equal to s
RECURSIVE ScanRun(_, _, _, _, _)
ScanRun(q, i, labels, s, P) ==
  LET e == q[i] IN
  IF e.action = s.action THEN SameAction(q, i, s, P)
  ELSE LET overlap == BitAnd(e.views, P.real_views) # 0
           remove == overlap /\ P.remove_existing
           r == IF remove THEN remove_shortcut(q, i) ELSE [q |-> q, crashed |-> FALSE]
           labels2 == labels \/ (overlap /\ ~P.remove_existing)
           next == IF remove THEN i ELSE i + 1
       IN IF r.crashed THEN {Crash(q, P.asked)}
          ELSE IF next <= Len(r.q) /\ shortcut_compare_func(s, r.q[next], P.view) = 0
          THEN ScanRun(r.q, next, labels2, s, P)
          ELSE {Continue(r.q, labels2)}

\* lines 734-736: go back to the first entry that has the same shortcut
RECURSIVE GoToFirst(_, _, _, _)
GoToFirst(q, i, s, v) ==
  IF i > 1 /\ shortcut_compare_func(s, q[i - 1], v) = 0
  THEN GoToFirst(q, i - 1, s, v) ELSE i

\* lines 730-809: one pass over the group of the store s sorts into
GroupPass(q, labels, s, P) ==
  UNION {IF existing = 0 THEN {Continue(q, labels)}
         ELSE ScanRun(q, GoToFirst(q, existing, s, P.view), labels, s, P) :
           existing \in LookupResults(q, s, P.view)}

\* lines 726-812: the active-view selection, then the opposite selection
BothGroups(q, P) ==
  LET first == GroupPass(q, FALSE, P.s, P)
      opposite == [P.s EXCEPT !.views = BitXor(@, P.view)]
  IN UNION {IF o.done THEN {o} ELSE GroupPass(o.q, o.labels, opposite, P) : o \in first}

\* a new entry if line 838 left the direction bits of the descriptor alone
AddNewWithDirection(q, P) ==
  {Added(n, "new", 0, P.asked, P.s.flags) : n \in add_shortcut(q, P.s, P.view)}

\* lines 838-842: a fresh binding is never pre-split
AddNew(q, P) ==
  LET s == [P.s EXCEPT !.flags = BitClear(@, DT_SHORTCUT_FLAG_DIR_MASK)]
  IN {Added(n, "new", 0, P.asked, s.flags) : n \in add_shortcut(q, s, P.view)}

\* lines 722-836: the loop that collects clashes, asks once, and on the answer
\* no returns, on the answer yes removes them
CheckClashes(q, P) ==
  UNION {IF o.done THEN {o}
         ELSE IF ~o.labels THEN AddNew(o.q, P)
         ELSE {Return(o.q, FALSE, "none", {"clash"}, TRUE, P.s.flags)}
              \cup
              LET P2 == [P EXCEPT !.remove_existing = TRUE, !.asked = {"clash"}]
              IN UNION {IF o2.done THEN {o2} ELSE AddNew(o2.q, P2) :
                          o2 \in BothGroups(o.q, P2)} :
           o \in BothGroups(q, P)}

\* insert_shortcut if line 723 set remove_existing to FALSE whatever the mode
insert_shortcutListing(q, shortcut, confirm, v) ==
  LET s == find_views(shortcut)
  IN CheckClashes(q, [s |-> s, view |-> v, real_views |-> s.views,
                      confirm |-> confirm,
                      remove_existing |-> FALSE, asked |-> {}])

\* the test of lines 701-704 if it looked at the flags only
KeyPressedOnlyFlags(shortcut) ==
  /\ ActionType[shortcut.action] = "key_pressed"
  /\ BitAnd(shortcut.flags,
            DT_SHORTCUT_FLAG_PRESS_MASK + DT_SHORTCUT_FLAG_BUTTON_MASK) # 0

\* lines 701-704: a key-pressed action takes a key of the keyboard and
\* modifiers only
KeyPressedOnly(shortcut) ==
  /\ ActionType[shortcut.action] = "key_pressed"
  /\ \/ shortcut.key_device # DT_SHORTCUT_DEVICE_KEYBOARD_MOUSE
     \/ shortcut.move_device # DT_SHORTCUT_DEVICE_KEYBOARD_MOUSE
     \/ shortcut.move # DT_SHORTCUT_MOVE_NONE
     \/ BitAnd(shortcut.flags,
               DT_SHORTCUT_FLAG_PRESS_MASK + DT_SHORTCUT_FLAG_BUTTON_MASK) # 0

insert_shortcut(q, shortcut, confirm, v) ==
  IF KeyPressedOnly(shortcut)
  THEN {Return(q, FALSE, "none", {}, FALSE, shortcut.flags)}
  ELSE LET s == find_views(shortcut)
       IN CheckClashes(q, [s |-> s, view |-> v, real_views |-> s.views,
                           confirm |-> confirm,
                           remove_existing |-> ~confirm, asked |-> {}])

(***************************************************************************)
(* dt_action_rename(action, NULL), lines 2793-2802: every entry of the     *)
(* action is removed, from the beginning of the store to its end.          *)
(***************************************************************************)
RECURSIVE RemoveAllOf(_, _, _)
RemoveAllOf(q, i, action) ==
  IF i > Len(q) THEN [q |-> q, crashed |-> FALSE]
  ELSE IF q[i].action = action
  THEN LET r == remove_shortcut(q, i)
       IN IF r.crashed THEN r ELSE RemoveAllOf(r.q, i, action)
  ELSE RemoveAllOf(q, i + 1, action)

(***************************************************************************)
(* The element and effect tables, lines 89-175.  Entry i of a C table is   *)
(* element i + 1 of the sequence; the terminating NULL is the index Len.   *)
(***************************************************************************)
dt_shortcut_effect_value == <<"reset", "up", "down", "top", "bottom", "edit">>

dt_shortcut_effect_selection ==
  <<"reset", "previous", "next", "first", "last", "popup">>

dt_shortcut_effect_toggle ==
  <<"toggle", "on", "off", "ctrl-toggle", "ctrl-on", "right-toggle", "right-on">>

dt_shortcut_element_slider ==
  <<[name |-> "value", effects |-> dt_shortcut_effect_value],
    [name |-> "min", effects |-> dt_shortcut_effect_value],
    [name |-> "max", effects |-> dt_shortcut_effect_value],
    [name |-> "zoom", effects |-> dt_shortcut_effect_value],
    [name |-> "button", effects |-> dt_shortcut_effect_toggle]>>

dt_shortcut_element_combo ==
  <<[name |-> "selection", effects |-> dt_shortcut_effect_selection],
    [name |-> "button", effects |-> dt_shortcut_effect_toggle]>>

\* <<>> stands for NULL
_action_find_elements(action) ==
  CASE ActionType[action] = "slider" -> dt_shortcut_element_slider
    [] ActionType[action] = "combo" -> dt_shortcut_element_combo
    [] OTHER -> <<>>

move_string ==
  <<"", "scroll", "pan", "horizontal", "vertical", "diagonal", "skew",
    "leftright", "updown", "pgupdown">>

\* the modifier bits of GDK and their names
modifier_string ==
  <<[bit |-> 1, name |-> "shift"], [bit |-> 4, name |-> "ctrl"],
    [bit |-> 8, name |-> "alt"], [bit |-> 16, name |-> "cmd"],
    [bit |-> 67108864, name |-> "super"],
    [bit |-> 134217728, name |-> "hyper"],
    [bit |-> 268435456, name |-> "meta"]>>

\* the C index of the first entry from index from on that is w, or the index
\* of the terminating NULL
FirstIndex(names, w, from) ==
  LET hits == {i \in from..(Len(names) - 1) : names[i + 1] = w}
  IN IF hits = {} THEN Len(names) ELSE CHOOSE i \in hits : \A j \in hits : i <= j

ElementNames(elements) == [i \in 1..Len(elements) |-> elements[i].name]

(***************************************************************************)
(* shortcutsrc.  A line is the tokens strtok cuts it into: the tokens left *)
(* of '=', the action path, and the tokens right of it.  A token is a word *)
(* or a number printed with %+d (signed) or *%g (star).                    *)
(***************************************************************************)
Word(w) == [kind |-> "word", text |-> w, num |-> 0]
Signed(n) == [kind |-> "signed", text |-> "", num |-> n]
Star(x) == [kind |-> "star", text |-> "", num |-> x]

\* gtk_accelerator_name and gtk_accelerator_parse for the keys of the model
gtk_accelerator_name(key) == IF key = 1 THEN "a" ELSE "b"

gtk_accelerator_parse(name) ==
  CASE name = "a" -> 1 [] name = "b" -> 2 [] OTHER -> 0

\* the names save writes for the press, button and click flags, in its order
flag_string ==
  <<[bit |-> DT_SHORTCUT_FLAG_PRESS_DOUBLE, name |-> "double"],
    [bit |-> DT_SHORTCUT_FLAG_PRESS_TRIPLE, name |-> "triple"],
    [bit |-> DT_SHORTCUT_FLAG_PRESS_LONG, name |-> "long"],
    [bit |-> DT_SHORTCUT_FLAG_BUTTON_LEFT, name |-> "left"],
    [bit |-> DT_SHORTCUT_FLAG_BUTTON_MIDDLE, name |-> "middle"],
    [bit |-> DT_SHORTCUT_FLAG_BUTTON_RIGHT, name |-> "right"],
    [bit |-> DT_SHORTCUT_FLAG_CLICK_DOUBLE, name |-> "double"],
    [bit |-> DT_SHORTCUT_FLAG_CLICK_TRIPLE, name |-> "triple"],
    [bit |-> DT_SHORTCUT_FLAG_CLICK_LONG, name |-> "long"]>>

\* the words of the entries of the table that have a bit in bits, in the
\* order of the table
NamesOfBits(table, bits) ==
  IF bits = 0 THEN <<>>
  ELSE LET set == SelectSeq(table, LAMBDA e : BitAnd(bits, e.bit) # 0)
       IN [i \in 1..Len(set) |-> Word(set[i].name)]

\* _shortcut_key_move_name(key_device, key, mods, FALSE) for the keyboard
KeyTokens(s) ==
  <<Word(IF s.key # 0 THEN gtk_accelerator_name(s.key) ELSE "None")>>
  \o NamesOfBits(modifier_string, s.mods)

\* one line of dt_shortcuts_save, lines 1543-1586
SaveLine(s) ==
  LET elements == _action_find_elements(s.action)
      threshold == IF _shortcut_is_move(s) THEN DT_SHORTCUT_EFFECT_DEFAULT_MOVE
                   ELSE DT_SHORTCUT_EFFECT_DEFAULT_KEY
      abs == IF s.instance < 0 THEN 0 - s.instance ELSE s.instance
  IN [key |->
        KeyTokens(s)
        \o (IF s.move_device # 0 \/ s.move # 0
            THEN <<Word(move_string[s.move + 1])>>
                 \o (IF BitAnd(s.flags, DT_SHORTCUT_FLAG_DIR_MASK) # 0
                     THEN <<Word(IF BitAnd(s.flags, DT_SHORTCUT_FLAG_DIR_UP) # 0
                                 THEN "up" ELSE "down")>>
                     ELSE <<>>)
            ELSE <<>>)
        \o NamesOfBits(flag_string, s.flags),
      action |-> s.action,
      rest |->
        (IF s.element # 0 THEN <<Word(elements[s.element + 1].name)>> ELSE <<>>)
        \o (IF s.effect > threshold
            THEN <<Word(elements[s.element + 1].effects[s.effect + 1])>> ELSE <<>>)
        \o (IF s.instance = -1 THEN <<Word("last")>> ELSE <<>>)
        \o (IF s.instance = 1 THEN <<Word("first")>> ELSE <<>>)
        \o (IF abs > 1 THEN <<Signed(s.instance)>> ELSE <<>>)
        \o (IF s.speed # 1 THEN <<Star(s.speed)>> ELSE <<>>)]

dt_shortcuts_save(q) == [i \in 1..Len(q) |-> SaveLine(q[i])]

\* lines 1676-1757: a token left of '='
ParseKeyToken(s, token) ==
  LET w == token.text
      mod == FirstIndex([i \in 1..Len(modifier_string) |-> modifier_string[i].name], w, 0)
      move == FirstIndex(move_string, w, 1)
      button == BitAnd(s.flags, DT_SHORTCUT_FLAG_BUTTON_MASK) # 0
      Set(f) == [s EXCEPT !.flags = BitOr(@, f)]
  IN IF mod < Len(modifier_string)
       THEN [s EXCEPT !.mods = BitOr(@, modifier_string[mod + 1].bit)]
     ELSE IF w = "left" THEN Set(DT_SHORTCUT_FLAG_BUTTON_LEFT)
     ELSE IF w = "middle" THEN Set(DT_SHORTCUT_FLAG_BUTTON_MIDDLE)
     ELSE IF w = "right" THEN Set(DT_SHORTCUT_FLAG_BUTTON_RIGHT)
     ELSE IF w = "double"
       THEN Set(IF button THEN DT_SHORTCUT_FLAG_CLICK_DOUBLE ELSE DT_SHORTCUT_FLAG_PRESS_DOUBLE)
     ELSE IF w = "triple"
       THEN Set(IF button THEN DT_SHORTCUT_FLAG_CLICK_TRIPLE ELSE DT_SHORTCUT_FLAG_PRESS_TRIPLE)
     ELSE IF w = "long"
       THEN Set(IF button THEN DT_SHORTCUT_FLAG_CLICK_LONG ELSE DT_SHORTCUT_FLAG_PRESS_LONG)
     ELSE IF move < Len(move_string) THEN [s EXCEPT !.move = move]
     ELSE IF w = "up" THEN Set(DT_SHORTCUT_FLAG_DIR_UP)
     ELSE IF w = "down" THEN Set(DT_SHORTCUT_FLAG_DIR_DOWN)
     ELSE s

\* lines 1776-1806: a token right of the action path
ParseActionToken(s, token, elements, default_effect) ==
  LET w == token.text
      element == FirstIndex(ElementNames(elements), w, 1)
      effects == elements[s.element + 1].effects
      effect == FirstIndex(effects, w, 0)
  IN IF token.kind = "word" /\ elements # <<>> /\ element < Len(elements)
       THEN [s EXCEPT !.element = element, !.effect = default_effect]
     ELSE IF token.kind = "word" /\ elements # <<>> /\ effect < Len(effects)
       THEN [s EXCEPT !.effect = effect]
     ELSE IF token.kind = "word" /\ w = "first" THEN [s EXCEPT !.instance = 1]
     ELSE IF token.kind = "word" /\ w = "last" THEN [s EXCEPT !.instance = -1]
     ELSE IF token.kind = "signed" THEN [s EXCEPT !.instance = token.num]
     ELSE IF token.kind = "star" THEN [s EXCEPT !.speed = token.num]
     ELSE s

RECURSIVE ParseKeyTokens(_, _, _)
ParseKeyTokens(s, tokens, k) ==
  IF k > Len(tokens) THEN s
  ELSE ParseKeyTokens(ParseKeyToken(s, tokens[k]), tokens, k + 1)

RECURSIVE ParseActionTokens(_, _, _, _, _)
ParseActionTokens(s, tokens, k, elements, default_effect) ==
  IF k > Len(tokens) THEN s
  ELSE ParseActionTokens(ParseActionToken(s, tokens[k], elements, default_effect),
                         tokens, k + 1, elements, default_effect)

\* lines 1626-1806: the descriptor dt_shortcuts_load makes of a line
ParseLine(line) ==
  LET zero == [views |-> 0, key_device |-> DT_SHORTCUT_DEVICE_KEYBOARD_MOUSE,
               key |-> 0, mods |-> 0, flags |-> 0,
               move_device |-> DT_SHORTCUT_DEVICE_KEYBOARD_MOUSE,
               move |-> DT_SHORTCUT_MOVE_NONE, action |-> line.action,
               element |-> 0, effect |-> 0, speed |-> 1, instance |-> 0]
      name == line.key[1].text
      keyed == IF name # "None" THEN [zero EXCEPT !.key = gtk_accelerator_parse(name)]
               ELSE zero
      s == ParseKeyTokens(keyed, line.key, 2)
      default_effect == IF _shortcut_is_move(s) THEN DT_SHORTCUT_EFFECT_DEFAULT_MOVE
                        ELSE DT_SHORTCUT_EFFECT_DEFAULT_KEY
  IN ParseActionTokens([s EXCEPT !.effect = default_effect], line.rest, 1,
                       _action_find_elements(line.action), default_effect)

\* lines 1611-1810: the lines of the file are inserted one after the other
RECURSIVE LoadFrom(_, _, _, _)
LoadFrom(q, file, k, v) ==
  IF k > Len(file) THEN {[q |-> q, crashed |-> FALSE]}
  ELSE UNION {IF o.crashed THEN {[q |-> o.q, crashed |-> TRUE]}
              ELSE LoadFrom(o.q, file, k + 1, v) :
                o \in insert_shortcut(q, ParseLine(file[k]), FALSE, v)}

dt_shortcuts_load(q, file, clear, v) ==
  LoadFrom(IF clear THEN <<>> ELSE q, file, 1, v)

(***************************************************************************)
(* The gestures and lines bindings are made from.                          *)
(***************************************************************************)
Shortcut(key, flags, move, action, effect) ==
  [views |-> 0, key_device |-> DT_SHORTCUT_DEVICE_KEYBOARD_MOUSE, key |-> key,
   mods |-> 0, flags |-> flags, move_device |-> DT_SHORTCUT_DEVICE_KEYBOARD_MOUSE,
   move |-> move, action |-> action, element |-> 0, effect |-> effect,
   speed |-> 1, instance |-> 0]

\* the key held during the gesture
Keys == {1}

\* the gestures of the model: the key held while the wheel scrolls, and the key
\* pressed twice
Shapes ==
  {[flags |-> 0, move |-> DT_SHORTCUT_MOVE_SCROLL],
   [flags |-> DT_SHORTCUT_FLAG_PRESS_DOUBLE, move |-> DT_SHORTCUT_MOVE_NONE]}

\* dt_shortcut_move, lines 2140-2145: the descriptor of a completed gesture; a
\* key press is finalized with size 1, a scroll with the sign of its delta
Gestures ==
  {Shortcut(k, g.flags + d, g.move, a,
            IF g.move # DT_SHORTCUT_MOVE_NONE THEN DT_SHORTCUT_EFFECT_DEFAULT_MOVE
            ELSE DT_SHORTCUT_EFFECT_DEFAULT_KEY) :
     k \in Keys, g \in Shapes, a \in Actions,
     d \in {DT_SHORTCUT_FLAG_DIR_UP, DT_SHORTCUT_FLAG_DIR_DOWN}}
  \ {s \in [views : {0}, key_device : {0}, key : Keys, mods : {0},
            flags : {DT_SHORTCUT_FLAG_PRESS_DOUBLE + DT_SHORTCUT_FLAG_DIR_DOWN},
            move_device : {0}, move : {DT_SHORTCUT_MOVE_NONE}, action : Actions,
            element : {0}, effect : {0}, speed : {1}, instance : {0}] : TRUE}

\* the lines of a shortcutsrc written by hand: a double press of the key, the
\* key with the wheel turned up or down, and the key with the wheel, with and
\* without the name of the first effect
FileLines ==
  {[key |-> <<Word(gtk_accelerator_name(k))>> \o m, action |-> a, rest |-> r] :
     k \in Keys, a \in Actions,
     m \in {<<Word("double")>>, <<Word("scroll"), Word("up")>>,
            <<Word("scroll"), Word("down")>>},
     r \in {<<>>}}
  \cup
  {[key |-> <<Word(gtk_accelerator_name(k)), Word("scroll")>>, action |-> a,
    rest |-> r] :
     k \in Keys, a \in Actions, r \in {<<>>, <<Word("reset")>>}}

\* the actions dt_action_rename is asked to delete
Deletable == {"sect/two"}

\* what the last operation was: how insert_shortcut changed the store, whether
\* it returned TRUE, whether a prompt was answered no, the place of the entry
\* it added or Delete was pressed on, and the place of the entry it split
Idle(op) ==
  [op |-> op, ret |-> FALSE, how |-> "none", declined |-> FALSE, idx |-> 0,
   sib |-> 0]

\* the fields that make the slot of a binding
SameSlot(a, b) ==
  /\ a.key_device = b.key_device /\ a.key = b.key
  /\ BitClear(a.flags, DT_SHORTCUT_FLAG_DIR_MASK) = BitClear(b.flags, DT_SHORTCUT_FLAG_DIR_MASK)
  /\ a.move_device = b.move_device /\ a.move = b.move /\ a.mods = b.mods

\* the sets of actions the registry holds when the store is still empty
Registries == {{"lib/combo", "iop/slider"}, {"sect/one", "sect/two"}}

\* the rows picked in the element, effect and instance lists of the dialog
PickedElements == {0, 1}
PickedEffects == {0, 1, 4}
PickedInstances == {0, 1, 2}
\* the numbers typed into the speed cell
TypedSpeeds == {1, 2}

\* the key codes of the keyboard
KeyCodes == {1, 2}

NoOrder == [a |-> 0, b |-> 0, c |-> 0, view |-> 0, result |-> <<>>]

\* no scroll and no motion yet
NoPointer == [type |-> "none", x |-> 0, y |-> 0, handled |-> FALSE, moves |-> <<>>]

NoStreak == [key |-> 0, n |-> 0, press |-> 0, up |-> TRUE, sent |-> 0, flags |-> -1]

StoreAtStart ==
  /\ shortcuts = <<>>
  /\ crashed = FALSE
  /\ last = Idle("init")
  /\ shortcutsrc = <<>>
  /\ edits = 0

KeysAtStart ==
  /\ pressed_keys = <<>>
  /\ _sc = [key_device |-> DT_SHORTCUT_DEVICE_KEYBOARD_MOUSE, key |-> 0, mods |-> 0,
            flags |-> 0, move |-> DT_SHORTCUT_MOVE_NONE, action |-> "", instance |-> 0]
  /\ _last_time = 0
  /\ _timeout_source = 0
  /\ sources = {}
  /\ _pressed_button = 0
  /\ buttons = {}
  /\ move_start_x = [n |-> 0, d |-> 1]
  /\ move_start_y = 0
  /\ pointer = NoPointer
  /\ now = 0
  /\ streak = NoStreak
  /\ out = -1

(***************************************************************************)
(* The tree of the actions.  A node is named by the labels on the way to   *)
(* it; <<>> stands for NULL.  The target of a node is "node" when it       *)
(* points to the first node below it, "widget" when it points to a widget, *)
(* "key" when it points to a GtkAccelKey and "null" when it is NULL.       *)
(***************************************************************************)
\* the types up to DT_ACTION_TYPE_SECTION, the types of the nodes that hold
\* other nodes
ContainerTypes == {"category", "global", "view", "lib", "iop", "section"}

\* the path of a node as shortcutsrc writes it
RECURSIVE PathName(_)
PathName(p) ==
  IF Len(p) = 1 THEN p[1] ELSE PathName(SubSeq(p, 1, Len(p) - 1)) \o "/" \o p[Len(p)]

\* the translations of the labels in the locale (Q_ and _); two labels have
\* the same translation, and a label without a translation is its own
Translations ==
  [combo |-> "auswahl", more |-> "weitere", zoom |-> "ansicht",
   slider |-> "regler", one |-> "eins", two |-> "zwei"]
    @@ ("zoom." :> "ansicht") @@ ("zoom=" :> "ansicht") @@ ("fit." :> "auswahl")

Q_(label) == IF label \in DOMAIN Translations THEN Translations[label] ELSE label

\* the labels and their translations in the order of the locale
CollationOrder ==
  <<"accel", "ansicht", "auswahl", "combo", "eins", "fit-", "fit.", "iop", "lib", "more",
    "one", "regler", "sect", "slider", "two", "weitere", "zoom", "zoom-", "zoom.",
    "zoom=", "zwei">>

\* the place of each of them in that order
CollationPlace ==
  [str \in {CollationOrder[i] : i \in 1..Len(CollationOrder)} |->
     CHOOSE i \in 1..Len(CollationOrder) : CollationOrder[i] = str]

g_utf8_collate(str1, str2) == CollationPlace[str1] - CollationPlace[str2]

\* the characters of the names that have one of the symbols; a name that is
\* not spelled out here has none
Spelling ==
  ("zoom." :> <<"z", "o", "o", "m", ".">>) @@ ("zoom=" :> <<"z", "o", "o", "m", "=">>)
    @@ ("fit." :> <<"f", "i", "t", ".">>)

\* g_strdelimit(string, delimiters, new_delimiter) on the characters
g_strdelimit(string, delimiters, new_delimiter) ==
  [i \in 1..Len(string) |->
     IF string[i] \in delimiters THEN new_delimiter ELSE string[i]]

\* the string of the characters
RECURSIVE StringOf(_)
StringOf(chars) ==
  IF chars = <<>> THEN "" ELSE chars[1] \o StringOf(Tail(chars))

\* the name as it is: what becomes of the labels if no symbol is replaced
path_with_symbols(path) == path

\* g_strdelimit(g_strdup(path), "=,/.", '-') for the names that are spelled out
WithoutSymbols ==
  [path \in DOMAIN Spelling |->
     StringOf(g_strdelimit(Spelling[path], {"=", ",", "/", "."}, "-"))]

\* path_without_symbols, lines 2492-2495
path_without_symbols(path) ==
  IF path \in DOMAIN WithoutSymbols THEN WithoutSymbols[path] ELSE path

\* the GtkAccelKey a key-pressed action points to (target "key"), zeroed
NoKey == [accel_key |-> 0, accel_mods |-> 0]

\* the list that starts at owner->target, as the labels of its nodes
ListBelow(tree, owner) ==
  IF tree[owner].target = "node" THEN tree[owner].below ELSE <<>>

\* lines 2499-2504: the place where the loop stops, the first node of the
\* list whose translated label does not collate before the new one
RECURSIVE insertion_point(_, _, _, _)
insertion_point(tree, owner, translated, i) ==
  LET list == ListBelow(tree, owner)
  IN IF /\ i <= Len(list)
        /\ g_utf8_collate(tree[Append(owner, list[i])].label_translated, translated) < 0
     THEN insertion_point(tree, owner, translated, i + 1)
     ELSE i

\* the list if the new node were linked at owner->target, before the others
LinkedFirst(tree, owner, label, translated) ==
  <<label>> \o ListBelow(tree, owner)

\* dt_action_insert_sorted, lines 2497-2507: the list below owner with the new
\* node linked in
dt_action_insert_sorted(tree, owner, label, translated) ==
  LET list == ListBelow(tree, owner)
      at == insertion_point(tree, owner, translated, 1)
  IN SubSeq(list, 1, at - 1) \o <<label>> \o SubSeq(list, at, Len(list))

\* a node made by calloc with its label, its translated label, its type and
\* its target, linked below owner by dt_action_insert_sorted; a target of
\* owner that is NULL becomes the new node
Linked(tree, owner, label, translated, type, target) ==
  LET child == Append(owner, label)
      list == dt_action_insert_sorted(tree, owner, label, translated)
      made == [p \in DOMAIN tree \cup {child} |->
                 IF p = child
                 THEN [type |-> type, target |-> target,
                       label_translated |-> translated, below |-> <<>>,
                       key |-> NoKey]
                 ELSE tree[p]]
  IN [made EXCEPT ![owner].below = list,
                  ![owner].target = IF @ = "null" THEN "node" ELSE @]

\* the actions the modules register while accel_initialising, each with the
\* node it is registered below
Registered ==
  <<<<<<"lib">>, "combo">>, <<<<"iop">>, "slider">>, <<<<"iop">>, "combo">>,
    <<<<"sect">>, "one">>, <<<<"sect">>, "two">>>>

RECURSIVE Register(_, _)
Register(tree, k) ==
  IF k > Len(Registered) THEN tree
  ELSE LET owner == Registered[k][1]
           label == Registered[k][2]
       IN Register(Linked(tree, owner, label, Q_(label),
                          ActionType[PathName(Append(owner, label))], "null"),
                   k + 1)

\* the tree after the modules have registered their actions while
\* accel_initialising: no action has a widget yet
ActionTree ==
  Register([p \in {<<"lib">>, <<"iop">>, <<"sect">>} |->
              [type |-> IF p = <<"sect">> THEN "section" ELSE p[1], target |-> "null",
               label_translated |-> Q_(p[1]), below |-> <<>>, key |-> NoKey]],
           1)

Located(tree, node) == [tree |-> tree, node |-> node, crashed |-> FALSE]

\* a read or a write through a pointer that is NULL or points to a widget
Fault(tree) == [tree |-> tree, node |-> <<>>, crashed |-> TRUE]

\* lines 2520-2528: a section is made for the element of the path, with the
\* clean element as its label, and linked below owner
NewSection(tree, owner, element) ==
  Linked(tree, owner, path_without_symbols(element), Q_(element), "section", "null")

\* lines 2548-2556
LocateEnd(tree, owner) ==
  IF owner = <<>> THEN Fault(tree)
  ELSE IF tree[owner].type \in ContainerTypes /\ tree[owner].target # "null"
    THEN Located(tree, <<>>)
  ELSE IF tree[owner].type = "section"
    THEN Located([tree EXCEPT ![owner].type = "closure"], owner)
  ELSE Located(tree, owner)

\* lines 2515-2546: the loop over the elements of the path.  The list below
\* owner is owner->target whatever the type of owner: below a node whose
\* target is NULL the element is created, and the target of a widget is read
\* as a node, which faults or runs to a word that is zero and links the new
\* node there.  Below NULL the list is darktable.control->actions, and an
\* element that is not in it is linked through &owner->target of NULL.
RECURSIVE LocateFrom(_, _, _, _)
LocateFrom(tree, owner, path, k) ==
  IF k > Len(path) THEN {LocateEnd(tree, owner)}
  ELSE LET child == Append(owner, path_without_symbols(path[k]))
           target == IF owner = <<>> THEN "node" ELSE tree[owner].target
       IN IF target \in {"widget", "key"}
            THEN {Fault(tree)}
                 \cup LocateFrom(NewSection(tree, owner, path[k]), child, path, k + 1)
          ELSE IF target = "node" /\ child \in DOMAIN tree
            THEN LocateFrom(tree, child, path, k + 1)
          ELSE IF owner = <<>> THEN {Fault(tree)}
          ELSE LocateFrom(NewSection(tree, owner, path[k]), child, path, k + 1)

dt_action_locate(tree, owner, path) == LocateFrom(tree, owner, path, 1)

\* the line read last: how many lines have been read, the line, whether it
\* was skipped, and the node dt_action_locate returned for its path
NoLine == [n |-> 0, line |-> <<>>, skipped |-> FALSE, node |-> <<>>]

\* NULL for a widget: a widget is the instance of the list it is of (0 when it
\* is of none), its action in darktable.control->widgets, and whether it is
\* the target of that action
NoWidget == [mod |-> 0, action |-> "", target |-> FALSE]

\* no call of insert_shortcut yet
NoCall ==
  [s |-> <<>>, confirm |-> FALSE, asked |-> {}, flags |-> 0, widget |-> NoWidget,
   looked |-> FALSE]

\* no binding has been processed yet
NoMapping == [sc |-> <<>>, action |-> "", instance |-> 0, entered |-> FALSE, mod |-> 0]

\* no driver has been registered: the ids given so far, and the module and
\* the id of the last call
NoDriver == [all |-> {}, module |-> 0, id |-> 0]

DevAtStart ==
  /\ actions = ActionTree
  /\ read = NoLine
  /\ call = NoCall
  /\ iop = <<>>
  /\ mapped = NoMapping
  /\ input_drivers = <<>>
  /\ given = NoDriver
  /\ mapping_widget = NoWidget

Init ==
  /\ StoreAtStart
  /\ view = DT_VIEW_LIGHTTABLE
  /\ live \in Registries
  /\ order = NoOrder
  /\ DevAtStart
  /\ KeysAtStart

Inserted(o, op) ==
  /\ shortcuts' = o.q
  /\ crashed' = o.crashed
  /\ last' = [op |-> op, ret |-> o.ret, how |-> o.how, declined |-> o.declined,
              idx |-> o.at, sib |-> o.sib]
  /\ UNCHANGED <<view, live, edits, order, devVars, keyVars>>

\* define_new_mapping, lines 1889-1902
Assign ==
  /\ ~crashed
  /\ \E s \in Gestures :
       /\ s.action \in live
       /\ \E o \in insert_shortcut(shortcuts, s, TRUE, view) :
            /\ Len(o.q) <= MaxStore
            /\ Inserted(o, "assign")
            /\ shortcutsrc' = IF o.crashed THEN shortcutsrc ELSE dt_shortcuts_save(o.q)

\* dt_shortcuts_load (clear = FALSE), lines 1611-1810, reads shortcutsrc when
\* darktable starts, before any view is entered: one more line of the file is
\* read and inserted
LoadLine ==
  /\ ~crashed
  /\ last.op \in {"init", "load"}
  /\ Len(shortcutsrc) < MaxStore
  /\ \E line \in FileLines :
       /\ line.action \in live
       /\ \E o \in insert_shortcut(shortcuts, ParseLine(line), FALSE, view) :
            /\ Inserted(o, "load")
            /\ shortcutsrc' = Append(shortcutsrc, line)

\* _shortcut_key_pressed, lines 1119-1142: Delete on a row of the store; when
\* the prompt is answered no nothing changes
DeleteKey ==
  /\ ~crashed
  /\ \E i \in 1..Len(shortcuts), yes \in BOOLEAN :
       IF yes
       THEN LET r == remove_shortcut(shortcuts, i)
            IN /\ shortcuts' = r.q
               /\ crashed' = r.crashed
               /\ shortcutsrc' = IF r.crashed THEN shortcutsrc ELSE dt_shortcuts_save(r.q)
               /\ last' = [Idle("delete") EXCEPT !.idx = i]
               /\ UNCHANGED <<view, live, edits, order, devVars, keyVars>>
       ELSE UNCHANGED vars

\* dt_action_rename(action, NULL), lines 2768-2811
Rename ==
  /\ ~crashed
  /\ \E a \in live \cap Deletable :
       LET r == RemoveAllOf(shortcuts, 1, a)
       IN /\ shortcuts' = r.q
          /\ crashed' = r.crashed
          /\ shortcutsrc' = IF r.crashed THEN shortcutsrc ELSE dt_shortcuts_save(r.q)
          /\ live' = live \ {a}
          /\ last' = Idle("rename")
          /\ UNCHANGED <<view, edits, order, devVars, keyVars>>

\* dt_shortcuts_select_view, lines 1837-1840, called when the view changes
SelectView ==
  /\ ~crashed
  /\ \E v \in Views :
       /\ view' = v
       /\ shortcuts' \in g_sequence_sort(shortcuts, v)
       /\ last' = Idle("select")
       /\ UNCHANGED <<live, crashed, shortcutsrc, edits, order, devVars, keyVars>>

Next == Assign \/ LoadLine \/ DeleteKey \/ Rename \/ SelectView

Spec == Init /\ [][Next]_vars

(***************************************************************************)
(* The shortcuts dialog and the file.  A cell of a row is edited in place, *)
(* and every edit ends with dt_shortcuts_save; dt_shortcuts_reinitialise   *)
(* reads the file back into an empty store.                                *)
(***************************************************************************)
Edited(q) ==
  /\ shortcuts' = q
  /\ shortcutsrc' = dt_shortcuts_save(q)
  /\ edits' = edits + 1
  /\ last' = Idle("edit")
  /\ UNCHANGED <<view, live, crashed, order, devVars, keyVars>>

\* _element_changed, lines 1008-1026
EditElement ==
  /\ ~crashed /\ edits < MaxEdits
  /\ \E i \in 1..Len(shortcuts), new_index \in PickedElements :
       LET s == shortcuts[i]
           elements == _action_find_elements(s.action)
       IN /\ elements # <<>> /\ new_index < Len(elements)
          /\ Edited([shortcuts EXCEPT ![i] =
               [s EXCEPT !.effect = IF elements[s.element + 1].effects
                                       # elements[new_index + 1].effects
                                    THEN 0 ELSE @,
                         !.element = new_index]])

\* _effect_changed, lines 1042-1059
EditEffect ==
  /\ ~crashed /\ edits < MaxEdits
  /\ \E i \in 1..Len(shortcuts), new_index \in PickedEffects :
       LET s == shortcuts[i]
           elements == _action_find_elements(s.action)
       IN /\ elements # <<>> /\ new_index < Len(elements[s.element + 1].effects)
          /\ Edited([shortcuts EXCEPT ![i] =
               [s EXCEPT !.effect = IF _shortcut_is_move(s) /\ new_index \in {1, 2}
                                    THEN DT_SHORTCUT_EFFECT_DEFAULT_MOVE
                                    ELSE new_index]])

\* _speed_edited, lines 1061-1066; the cell is editable under the condition of
\* lines 939-943
EditSpeed ==
  /\ ~crashed /\ edits < MaxEdits
  /\ \E i \in 1..Len(shortcuts), speed \in TypedSpeeds :
       LET s == shortcuts[i]
           elements == _action_find_elements(s.action)
       IN /\ elements # <<>>
          /\ elements[s.element + 1].effects = dt_shortcut_effect_value
          /\ s.effect \in {DT_SHORTCUT_EFFECT_DEFAULT_MOVE, 1, 2}
          /\ Edited([shortcuts EXCEPT ![i] = [s EXCEPT !.speed = speed]])

\* _instance_edited, lines 1068-1078: row i of the list is instance_label[i];
\* the cell is editable for the actions of a processing module, lines 949-965
EditInstance ==
  /\ ~crashed /\ edits < MaxEdits
  /\ \E i \in 1..Len(shortcuts), label \in PickedInstances :
       /\ OwnerType[shortcuts[i].action] = "iop"
       /\ Edited([shortcuts EXCEPT ![i] =
            [@ EXCEPT !.instance = ((label + 1) \div 2)
                                   * (IF label % 2 = 1 THEN 1 ELSE -1)]])

\* dt_shortcuts_reinitialise, lines 1815-1835
Reinitialise ==
  /\ ~crashed
  /\ \E r \in dt_shortcuts_load(shortcuts, shortcutsrc, TRUE, view) :
       /\ shortcuts' = r.q
       /\ crashed' = r.crashed
       /\ last' = Idle("reinit")
       /\ UNCHANGED <<view, live, shortcutsrc, edits, order, devVars, keyVars>>

\* the dialog is opened in the darkroom, the view of the processing modules
InitFile ==
  /\ StoreAtStart
  /\ view = DT_VIEW_DARKROOM
  /\ live \in {{"iop/combo"}, {"iop/slider"}}
  /\ order = NoOrder
  /\ DevAtStart
  /\ KeysAtStart

NextFile ==
  \/ Assign \/ DeleteKey \/ EditElement \/ EditEffect \/ EditSpeed
  \/ EditInstance \/ Reinitialise

SpecFile == InitFile /\ [][NextFile]_vars

(***************************************************************************)
(* The comparator on its own: three bindings of the store are compared     *)
(* with one another under a view.                                          *)
(***************************************************************************)
\* bindings of the key with the wheel, whole and split, with and without a
\* double press of the key, of a module of both views, of a module of the
\* darkroom and of a fallback
Bindings ==
  {find_views(Shortcut(k, f + d, DT_SHORTCUT_MOVE_SCROLL, a, DT_SHORTCUT_EFFECT_DEFAULT_MOVE)) :
     k \in Keys, f \in {0, DT_SHORTCUT_FLAG_PRESS_DOUBLE},
     d \in {0, DT_SHORTCUT_FLAG_DIR_UP, DT_SHORTCUT_FLAG_DIR_DOWN},
     a \in {"lib/combo", "iop/slider", "sect/one"}}

Sign(n) == IF n < 0 THEN -1 ELSE IF n > 0 THEN 1 ELSE 0

InitCmp ==
  /\ StoreAtStart
  /\ view = DT_VIEW_LIGHTTABLE
  /\ live = {"lib/combo", "sect/one"}
  /\ order \in [a : Bindings, b : Bindings, c : Bindings, view : Views,
                result : {<<>>}]
  /\ DevAtStart
  /\ KeysAtStart

\* the calls g_sequence_sort and g_sequence_lookup make of shortcut_compare_func
Compare ==
  /\ order.result = <<>>
  /\ order' = [order EXCEPT !.result =
       [ab |-> Sign(shortcut_compare_func(order.a, order.b, order.view)),
        ba |-> Sign(shortcut_compare_func(order.b, order.a, order.view)),
        bc |-> Sign(shortcut_compare_func(order.b, order.c, order.view)),
        ac |-> Sign(shortcut_compare_func(order.a, order.c, order.view))]]
  /\ UNCHANGED <<storeVars, devVars, keyVars>>

NextCmp == Compare

SpecCmp == InitCmp /\ [][NextCmp]_vars

(***************************************************************************)
(* Key presses and releases, lines 2188-2306.  Time is the time stamp of   *)
(* the events; the timeout of a release fires when it is due or later.     *)
(***************************************************************************)
\* the press flags if line 2238 set the double-press bit instead of adding it
PressFlagsSetBit(sc, id, key, time, last_time) ==
  IF /\ id = sc.key_device /\ key = sc.key
     /\ time < last_time + Delay
     /\ BitAnd(sc.flags, DT_SHORTCUT_FLAG_PRESS_TRIPLE) = 0
  THEN BitOr(sc.flags, DT_SHORTCUT_FLAG_PRESS_DOUBLE)
  ELSE 0

\* lines 2236-2241: the press flags of a key that goes down when no key is down
PressFlags(sc, id, key, time, last_time) ==
  IF /\ id = sc.key_device /\ key = sc.key
     /\ time < last_time + Delay
     /\ BitAnd(sc.flags, DT_SHORTCUT_FLAG_PRESS_TRIPLE) = 0
  THEN sc.flags + DT_SHORTCUT_FLAG_PRESS_DOUBLE
  ELSE 0

\* line 2292: the press flags of the key when it goes up late
ReleaseFlags(flags, passed_time) ==
  IF passed_time > Delay THEN BitOr(flags, DT_SHORTCUT_FLAG_PRESS_LONG) ELSE flags

\* dt_shortcut_move(DT_SHORTCUT_DEVICE_KEYBOARD_MOUSE, 0, DT_SHORTCUT_MOVE_NONE, 1),
\* lines 2135-2186: the flags of the gesture that is handed to process_mapping
dt_shortcut_move(flags) == BitOr(flags, DT_SHORTCUT_FLAG_DIR_UP)

\* the run of presses goes on, starts again or is broken by a press of key
Pressed(key) ==
  LET quick == streak.key = key /\ now < streak.press + Delay
      begun == [key |-> key, n |-> 1, press |-> now, up |-> FALSE, sent |-> 0,
                flags |-> -1]
  IN IF pressed_keys # <<>> THEN [begun EXCEPT !.n = 0]
     ELSE IF quick /\ streak.n \in {1, 2} /\ streak.up
       THEN [streak EXCEPT !.press = now, !.n = @ + 1, !.up = FALSE]
     ELSE IF quick THEN [begun EXCEPT !.n = 0]
     ELSE begun

\* the run of presses when a key goes up
Released(key) ==
  IF streak.n > 0 /\ streak.key = key /\ now < streak.press + Delay
  THEN [streak EXCEPT !.up = TRUE]
  ELSE [streak EXCEPT !.n = 0, !.up = TRUE, !.sent = 0, !.flags = -1]

\* the run of presses when a gesture with the flags is dispatched
Dispatched(s, flags) ==
  IF flags < 0 \/ s.n = 0 THEN s ELSE [s EXCEPT !.sent = @ + 1, !.flags = flags]

\* g_source_remove(tag), lines 2226 and 2443: the timeouts that are left
g_source_remove(tag) == {x \in sources : x.id # tag}

\* the id g_timeout_add gives a new timeout: one that no pending timeout has
NewSource ==
  CHOOSE id \in 1..(Cardinality(sources) + 1) :
    /\ \A x \in sources : x.id # id
    /\ \A j \in 1..(id - 1) : \E x \in sources : x.id = j

\* lines 2287-2288 and 2465-2466: g_timeout_add(interval, function, NULL) when
\* _timeout_source is 0, and nothing when it is not
Armed(interval, function) ==
  IF _timeout_source # 0 THEN UNCHANGED <<_timeout_source, sources>>
  ELSE /\ Cardinality(sources) < MaxSources
       /\ _timeout_source' = NewSource
       /\ sources' = sources \cup {[id |-> NewSource, function |-> function,
                                     due |-> now + interval]}

\* _button_release_delayed, lines 2206-2217; dt_shortcut_move leaves the last
\* key of the list of the pressed keys in the shortcut (lines 2167-2174)
_button_release_delayed(timed_out, flags, pressed_button, s) ==
  /\ out' = IF timed_out THEN -1 ELSE dt_shortcut_move(flags)
  /\ streak' = Dispatched(s, out')
  /\ _sc' = [_sc EXCEPT
       !.key_device = IF timed_out \/ pressed_keys = <<>> THEN @
                      ELSE DT_SHORTCUT_DEVICE_KEYBOARD_MOUSE,
       !.key = IF timed_out \/ pressed_keys = <<>> THEN @
               ELSE pressed_keys[Len(pressed_keys)],
       !.move = IF timed_out THEN @ ELSE DT_SHORTCUT_MOVE_NONE,
       !.flags = BitOr(BitAnd(flags, DT_SHORTCUT_FLAG_PRESS_MASK), pressed_button)]
  /\ _timeout_source' = 0
  /\ _last_time' = 0

\* _key_up_delayed, lines 2188-2204
_key_up_delayed(timed_out, flags, s) ==
  /\ out' = IF timed_out THEN -1 ELSE dt_shortcut_move(flags)
  /\ streak' = Dispatched(s, out')
  /\ _sc' = [_sc EXCEPT !.key = 0, !.flags = 0, !.mods = 0,
                        !.move = IF timed_out THEN @ ELSE DT_SHORTCUT_MOVE_NONE]
  /\ _timeout_source' = 0
  /\ _last_time' = 0

\* lines 1859-1882: how many instances of the module of the action are in the
\* pipe among the first n of the list
InstancesUpTo(list, n) ==
  Cardinality({i \in 1..n : list[i].so = "iop" /\ list[i].live})

\* lookup_mapping_widget if line 1884 subtracted current_instance only
lookup_mapping_widgetShort(list, widget, instance) ==
  LET current_instance == InstancesUpTo(list, Len(list))
      found == IF instance # 0 THEN instance
               ELSE IF widget.mod # 0 /\ list[widget.mod].so = "iop" /\ list[widget.mod].live
               THEN InstancesUpTo(list, widget.mod)
               ELSE 0
  IN [action |-> widget.action,
      instance |-> IF widget.target \/ OwnerType[widget.action] # "iop" THEN instance
                   ELSE IF current_instance - found < found
                   THEN found - current_instance
                   ELSE found]

\* lookup_mapping_widget, lines 1847-1887: the action and the instance the
\* descriptor gets for the widget that is to be mapped
lookup_mapping_widget(list, widget, instance) ==
  LET current_instance == InstancesUpTo(list, Len(list))
      found == IF instance # 0 THEN instance
               ELSE IF widget.mod # 0 /\ list[widget.mod].so = "iop" /\ list[widget.mod].live
               THEN InstancesUpTo(list, widget.mod)
               ELSE 0
  IN [action |-> widget.action,
      instance |-> IF widget.target \/ OwnerType[widget.action] # "iop" THEN instance
                   ELSE IF current_instance - found < found
                   THEN found - (current_instance + 1)
                   ELSE found]

\* lines 2236-2244: the action and the instance of the descriptor when a key
\* goes down
PressAction(sc, key, time, last_time) ==
  IF /\ pressed_keys = <<>>
     /\ ~(/\ DT_SHORTCUT_DEVICE_KEYBOARD_MOUSE = sc.key_device /\ key = sc.key
          /\ time < last_time + Delay
          /\ BitAnd(sc.flags, DT_SHORTCUT_FLAG_PRESS_TRIPLE) = 0)
     /\ mapping_widget # NoWidget /\ sc.action = ""
  THEN lookup_mapping_widget(iop, mapping_widget, sc.instance)
  ELSE [action |-> sc.action, instance |-> sc.instance]

\* dt_shortcut_key_press, lines 2219-2265
KeyPress ==
  \E key \in KeyCodes :
    /\ \A i \in 1..Len(pressed_keys) : pressed_keys[i] # key
    /\ sources' = g_source_remove(_timeout_source)
    /\ _timeout_source' = 0
    /\ _sc' = [_sc EXCEPT
         !.key_device = DT_SHORTCUT_DEVICE_KEYBOARD_MOUSE,
         !.key = key,
         !.action = PressAction(_sc, key, now, _last_time).action,
         !.instance = PressAction(_sc, key, now, _last_time).instance,
         !.mods = IF pressed_keys = <<>> THEN 0 ELSE @,
         !.flags = BitAnd(IF pressed_keys = <<>>
                          THEN PressFlags(_sc, DT_SHORTCUT_DEVICE_KEYBOARD_MOUSE,
                                          key, now, _last_time)
                          ELSE @, DT_SHORTCUT_FLAG_PRESS_MASK)]
    /\ _last_time' = now
    /\ _pressed_button' = 0
    /\ pressed_keys' = <<key>> \o pressed_keys
    /\ streak' = Pressed(key)
    /\ out' = -1
    /\ UNCHANGED <<storeVars, order, devVars, motionVars, buttons, now>>

\* dt_shortcut_key_release, lines 2267-2306
KeyRelease ==
  \E key \in KeyCodes :
    LET rest == SelectSeq(pressed_keys, LAMBDA k : k # key)
        passed_time == now - _last_time
    IN /\ \E i \in 1..Len(pressed_keys) : pressed_keys[i] = key
       /\ pressed_keys' = rest
       /\ IF rest # <<>>
            THEN /\ out' = -1
                 /\ streak' = Released(key)
                 /\ UNCHANGED <<_sc, _last_time, _timeout_source, sources>>
          ELSE IF _sc.key_device = DT_SHORTCUT_DEVICE_KEYBOARD_MOUSE /\ _sc.key = key
            THEN IF /\ passed_time < Delay
                    /\ BitAnd(_sc.flags, DT_SHORTCUT_FLAG_PRESS_TRIPLE) = 0
                   THEN /\ Armed(Delay - passed_time, "_key_up_delayed")
                        /\ out' = -1
                        /\ streak' = Released(key)
                        /\ UNCHANGED <<_sc, _last_time>>
                 ELSE /\ _key_up_delayed(passed_time > 2 * Delay,
                                         ReleaseFlags(_sc.flags, passed_time),
                                         Released(key))
                      /\ UNCHANGED sources
          ELSE /\ _key_up_delayed(TRUE, _sc.flags, Released(key))
               /\ UNCHANGED sources
       /\ UNCHANGED <<storeVars, order, devVars, motionVars, _pressed_button, buttons, now>>

\* a timeout armed at line 2288 or 2466 is due: it calls its function with
\* NULL, and it is destroyed because the function returns FALSE
TimerFire ==
  \E x \in sources :
    /\ now >= x.due
    /\ sources' = sources \ {x}
    /\ IF x.function = "_key_up_delayed"
       THEN _key_up_delayed(FALSE, _sc.flags, streak)
       ELSE _button_release_delayed(FALSE, _sc.flags, _pressed_button, streak)
    /\ UNCHANGED <<storeVars, order, devVars, motionVars, pressed_keys, _pressed_button,
                   buttons, now>>

\* time passes
Tick ==
  /\ now < MaxTime
  /\ now' = now + 1
  /\ out' = -1
  /\ UNCHANGED <<storeVars, order, devVars, motionVars, pressed_keys, _sc, _last_time,
                 _timeout_source, sources, _pressed_button, buttons, streak>>

InitKeys ==
  /\ StoreAtStart
  /\ view = DT_VIEW_LIGHTTABLE
  /\ live = {}
  /\ order = NoOrder
  /\ DevAtStart
  /\ KeysAtStart

NextKeys == KeyPress \/ KeyRelease \/ TimerFire \/ Tick

SpecKeys == InitKeys /\ [][NextKeys]_vars

(***************************************************************************)
(* Mouse buttons with the keys: dt_shortcut_dispatcher, lines 2437-2474.   *)
(***************************************************************************)
\* event->button.button of the left button
MouseButtons == {1}

\* DT_SHORTCUT_FLAG_BUTTON_LEFT << (event->button.button - 1)
ButtonFlag(button) == DT_SHORTCUT_FLAG_BUTTON_LEFT * 2 ^ (button - 1)

\* line 2471: the click flags of a button that goes up late
ClickFlags(flags, passed_time) ==
  IF passed_time > Delay THEN BitOr(flags, DT_SHORTCUT_FLAG_CLICK_LONG) ELSE flags

\* GDK_BUTTON_PRESS, lines 2437-2446; line 2334 returns before the switch when
\* no key is down
ButtonPress ==
  \E button \in MouseButtons \ buttons :
    /\ buttons' = buttons \cup {button}
    /\ IF pressed_keys = <<>>
       THEN UNCHANGED <<_pressed_button, _sc, _last_time, _timeout_source, sources,
                        streak>>
       ELSE /\ _pressed_button' = BitOr(_pressed_button, ButtonFlag(button))
            /\ _sc' = [_sc EXCEPT
                 !.flags = BitOr(BitAnd(@, DT_SHORTCUT_FLAG_PRESS_MASK),
                                 _pressed_button')]
            /\ _last_time' = now
            /\ sources' = g_source_remove(_timeout_source)
            /\ _timeout_source' = 0
            /\ streak' = NoStreak
    /\ out' = -1
    /\ UNCHANGED <<storeVars, order, devVars, motionVars, pressed_keys, now>>

\* GDK_BUTTON_RELEASE, lines 2453-2474; line 2334 returns before the switch
\* when no key is down
ButtonRelease ==
  \E button \in buttons :
    LET passed_time == now - _last_time
        pressed_button == BitClear(_pressed_button, ButtonFlag(button))
    IN /\ buttons' = buttons \ {button}
       /\ IF pressed_keys = <<>>
          THEN /\ out' = -1
               /\ UNCHANGED <<_pressed_button, _sc, _last_time, _timeout_source,
                              sources, streak>>
          ELSE /\ _pressed_button' = pressed_button
               /\ IF /\ passed_time < Delay
                     /\ BitAnd(_sc.flags, DT_SHORTCUT_FLAG_CLICK_TRIPLE) = 0
                  THEN /\ Armed(Delay - passed_time, "_button_release_delayed")
                       /\ out' = -1
                       /\ streak' = NoStreak
                       /\ UNCHANGED <<_sc, _last_time>>
                  ELSE /\ _button_release_delayed(passed_time > 2 * Delay,
                                                  ClickFlags(_sc.flags, passed_time),
                                                  pressed_button, NoStreak)
                       /\ UNCHANGED sources
       /\ UNCHANGED <<storeVars, order, devVars, motionVars, pressed_keys, now>>

NextButtons == NextKeys \/ ButtonPress \/ ButtonRelease

SpecButtons == InitKeys /\ [][NextButtons]_vars

(***************************************************************************)
(* The wheel and the pointer with the keys: dt_shortcut_dispatcher, lines  *)
(* 2379-2436.  The places of the pointer are whole pixels.                 *)
(***************************************************************************)
\* const gdouble step_size, line 2402
step_size == 10

\* the unit deltas dt_gui_get_scroll_unit_deltas hands out for an axis
Deltas == {-2, 0, 1}

\* event->motion.x and event->motion.y
Places == {0, 10, 25}

Abs(i) == IF i < 0 THEN -i ELSE i

\* trunc(n / d) for d > 0
trunc(n, d) == IF n < 0 THEN -((-n) \div d) ELSE n \div d

\* lines 2144-2145: the direction dt_shortcut_move adds for the size
DirectionOf(size) ==
  IF size > 0 THEN DT_SHORTCUT_FLAG_DIR_UP
  ELSE IF size < 0 THEN DT_SHORTCUT_FLAG_DIR_DOWN ELSE 0

\* dt_shortcut_move(DT_SHORTCUT_DEVICE_KEYBOARD_MOUSE, time, move, size), lines
\* 2135-2186: the move, the size and the flags process_mapping is called with
MoveSent(flags, move, size) ==
  [move |-> move, size |-> size, flags |-> BitOr(flags, DirectionOf(size))]

\* the move if the dispatcher handed it the deltas as they are
ScrollSentAsIs(flags, move, delta) == MoveSent(flags, move, delta)

\* lines 2384-2387: the move of a delta of the wheel
ScrollSent(flags, move, delta) == MoveSent(flags, move, -delta)

\* what dt_shortcut_move leaves in the shortcut under construction (lines
\* 2167-2183): the key pressed first, no move and no direction
AfterMove ==
  [_sc EXCEPT !.key_device = IF pressed_keys = <<>> THEN @
                             ELSE DT_SHORTCUT_DEVICE_KEYBOARD_MOUSE,
              !.key = IF pressed_keys = <<>> THEN @ ELSE pressed_keys[Len(pressed_keys)],
              !.move = DT_SHORTCUT_MOVE_NONE,
              !.flags = BitClear(@, DT_SHORTCUT_FLAG_DIR_MASK)]

\* GDK_SCROLL, lines 2379-2390; line 2334 returns before the switch when no
\* key is down
Scroll ==
  \E delta_x \in Deltas, delta_y \in Deltas :
    LET moves == (IF delta_x # 0
                  THEN <<ScrollSent(_sc.flags, DT_SHORTCUT_MOVE_PAN, delta_x)>>
                  ELSE <<>>)
                 \o (IF delta_y # 0
                     THEN <<ScrollSent(IF delta_x # 0 THEN AfterMove.flags ELSE _sc.flags,
                                       DT_SHORTCUT_MOVE_SCROLL, delta_y)>>
                     ELSE <<>>)
    IN /\ IF pressed_keys = <<>> \/ moves = <<>>
          THEN /\ pointer' = [type |-> "scroll", x |-> delta_x, y |-> delta_y,
                              handled |-> pressed_keys # <<>>, moves |-> <<>>]
               /\ out' = -1
               /\ UNCHANGED _sc
          ELSE /\ pointer' = [type |-> "scroll", x |-> delta_x, y |-> delta_y,
                              handled |-> TRUE, moves |-> moves]
               /\ out' = moves[Len(moves)].flags
               /\ _sc' = AfterMove
       /\ UNCHANGED <<storeVars, order, devVars, pressed_keys, _last_time,
                      _timeout_source, sources, _pressed_button, buttons,
                      move_start_x, move_start_y, now, streak>>

\* lines 2412-2433: the move of the pointer from where it began to x and y
\* and where the next one begins; the angle is x_move / (0.001 + y_move)
MotionSent(x, y) ==
  LET x_move == [n |-> x * move_start_x.d - move_start_x.n, d |-> move_start_x.d]
      y_move == y - move_start_y
      over == x_move.d * (1 + 1000 * y_move)
      steep == 1000 * Abs(x_move.n) >= 2 * Abs(over)
      flat == 2000 * Abs(x_move.n) < Abs(over)
      negative == (x_move.n < 0) # (over < 0) /\ x_move.n # 0
      across == trunc(x_move.n, step_size * x_move.d)
      along == -trunc(y_move, step_size)
  IN IF across # 0 /\ steep
     THEN [moves |-> <<MoveSent(_sc.flags, DT_SHORTCUT_MOVE_HORIZONTAL, across)>>,
           x |-> [n |-> move_start_x.n + across * step_size * move_start_x.d,
                  d |-> move_start_x.d],
           y |-> y]
     ELSE IF along = 0
     THEN [moves |-> <<>>, x |-> move_start_x, y |-> move_start_y]
     ELSE IF flat
     THEN [moves |-> <<MoveSent(_sc.flags, DT_SHORTCUT_MOVE_VERTICAL, along)>>,
           x |-> [n |-> x, d |-> 1],
           y |-> move_start_y - along * step_size]
     ELSE [moves |-> <<MoveSent(_sc.flags,
                                IF negative THEN DT_SHORTCUT_MOVE_SKEW
                                ELSE DT_SHORTCUT_MOVE_DIAGONAL, along)>>,
           x |-> [n |-> (move_start_x.n * Abs(over)
                          - (IF over < 0 THEN -1 ELSE 1) * along * step_size * 1000
                              * x_move.n * move_start_x.d),
                  d |-> move_start_x.d * Abs(over)],
           y |-> move_start_y - along * step_size]

\* GDK_MOTION_NOTIFY, lines 2391-2436; line 2334 returns before the switch
\* when no key is down
Motion ==
  \E x \in Places, y \in Places :
    /\ IF pressed_keys = <<>>
       THEN /\ pointer' = [type |-> "motion", x |-> x, y |-> y, handled |-> FALSE,
                           moves |-> <<>>]
            /\ out' = -1
            /\ UNCHANGED <<_sc, move_start_x, move_start_y>>
       ELSE IF _sc.move = DT_SHORTCUT_MOVE_NONE
       THEN /\ move_start_x' = [n |-> x, d |-> 1]
            /\ move_start_y' = y
            /\ _sc' = [_sc EXCEPT !.move = DT_SHORTCUT_MOVE_HORIZONTAL]
            /\ pointer' = [type |-> "motion", x |-> x, y |-> y, handled |-> TRUE,
                           moves |-> <<>>]
            /\ out' = -1
       ELSE LET sent == MotionSent(x, y)
            IN /\ move_start_x' = sent.x
               /\ move_start_y' = sent.y
               /\ pointer' = [type |-> "motion", x |-> x, y |-> y, handled |-> TRUE,
                              moves |-> sent.moves]
               /\ IF sent.moves = <<>>
                  THEN out' = -1 /\ UNCHANGED _sc
                  ELSE out' = sent.moves[1].flags /\ _sc' = AfterMove
    /\ UNCHANGED <<storeVars, order, devVars, pressed_keys, _last_time,
                   _timeout_source, sources, _pressed_button, buttons, now, streak>>

NextPointer == KeyPress \/ Scroll \/ Motion

SpecPointer == InitKeys /\ [][NextPointer]_vars

\* the keys and the wheel: keys go down and up while the wheel turns
NextWheel == KeyPress \/ KeyRelease \/ TimerFire \/ Tick \/ Scroll

SpecWheel == InitKeys /\ [][NextWheel]_vars

(***************************************************************************)
(* The events that end a grab: dt_shortcut_dispatcher, lines 2326-2378.    *)
(***************************************************************************)
\* GDK_FOCUS_CHANGE with in = FALSE, GDK_WINDOW_STATE, and GDK_GRAB_BROKEN
\* that is not implicit
FocusEvents == {"focus_change", "window_state", "grab_broken"}

\* line 2334 lets only a key press and a focus change pass when no key is
\* down; lines 2372-2376 are what the other events fall through to
FocusOut ==
  \E type \in FocusEvents :
    /\ IF pressed_keys = <<>> /\ type # "focus_change"
       THEN UNCHANGED <<pressed_keys, _sc>>
       ELSE /\ pressed_keys' = <<>>
            /\ _sc' = [_sc EXCEPT !.flags = 0]
    /\ streak' = NoStreak
    /\ out' = -1
    /\ UNCHANGED <<storeVars, order, devVars, motionVars, _last_time, _timeout_source, sources,
                   _pressed_button, buttons, now>>

NextFocus == NextKeys \/ FocusOut

SpecFocus == InitKeys /\ [][NextFocus]_vars

(***************************************************************************)
(* dt_shortcuts_load, line by line, with the tree of the actions           *)
(***************************************************************************)
\* a token with a colon: the name of a driver before the colon
Driver(name) == [kind |-> "driver", text |-> name, num |-> 0]

\* lines 1653-1672 and 1736-1755: whether the list holds a driver of the name
ValidDriver(name) ==
  FirstIndex([i \in 1..Len(input_drivers) |-> input_drivers[i].name], name, 0)
    < Len(input_drivers)

\* lines 1612-1809: what dt_shortcuts_load does with one line.  A line that is
\* no assignment, or whose first token names no driver before the colon or a
\* driver that is not registered, is left by continue (lines 1623, 1645,
\* 1671); the tokens between the first one and '=' change the descriptor or
\* are only reported (lines 1719, 1728, 1754 continue the loop over the
\* tokens); the path is located from NULL and the line is left when no node
\* comes back (line 1767); the tokens after the path change the descriptor
\* or are only reported (line 1805); insert_shortcut is called (line 1808).
ReadLine(q, tree, line, v) ==
  LET Left(tr, fault, skip) ==
        [q |-> q, tree |-> tr, crashed |-> fault, skipped |-> skip, node |-> <<>>,
         last |-> Idle("load")]
      first == line.key[1]
  IN IF ~line.assignment THEN {Left(tree, FALSE, TRUE)}
     ELSE IF first.kind = "driver" /\ (first.text = "" \/ ~ValidDriver(first.text))
       THEN {Left(tree, FALSE, TRUE)}
     ELSE UNION
       {IF l.crashed THEN {Left(l.tree, TRUE, FALSE)}
        ELSE IF l.node = <<>> THEN {Left(l.tree, FALSE, TRUE)}
        ELSE {[q |-> o.q, tree |-> l.tree, crashed |-> o.crashed, skipped |-> FALSE,
               node |-> l.node,
               last |-> [op |-> "load", ret |-> o.ret, how |-> o.how,
                         declined |-> o.declined, idx |-> o.at, sib |-> o.sib]] :
                o \in insert_shortcut(q, ParseLine([key |-> line.key,
                                                    action |-> PathName(l.node),
                                                    rest |-> line.rest]),
                                      FALSE, v)} :
          l \in dt_action_locate(tree, <<>>, line.path)}

\* the lines of a shortcutsrc written by hand: the key alone, the key pressed
\* twice, the key followed by a word that is no token, a key of a driver that
\* is not registered, the key followed by the move of such a driver; the path
\* of an action, of a node below it, of a node the lib module does not have,
\* of a node below such a node, of the lib module, of a node the root does not
\* have; after it nothing or a word that is no token; and a line without '='
ShortcutsrcLines ==
  {[assignment |-> TRUE, key |-> k, path |-> p, rest |-> r] :
     k \in {<<Word("a")>>, <<Word("a"), Word("double")>>, <<Word("a"), Word("bogus")>>,
            <<Driver("midi")>>, <<Word("a"), Driver("midi")>>},
     p \in {<<"lib", "combo">>, <<"lib", "combo", "more">>, <<"lib", "more">>,
            <<"lib", "zoom", "more">>, <<"lib">>, <<"more">>},
     r \in {<<>>, <<Word("bogus")>>}}
  \cup {[assignment |-> FALSE, key |-> <<Word("a")>>, path |-> <<"lib", "combo">>,
         rest |-> <<>>]}

\* dt_shortcuts_load, lines 1611-1810: one more line of the file is read
LoadOne ==
  /\ ~crashed
  /\ read.n < MaxStore
  /\ \E line \in ShortcutsrcLines :
       \E o \in ReadLine(shortcuts, actions, line, view) :
         /\ shortcuts' = o.q
         /\ actions' = o.tree
         /\ crashed' = o.crashed
         /\ last' = o.last
         /\ read' = [n |-> read.n + 1, line |-> line, skipped |-> o.skipped,
                     node |-> o.node]
         /\ UNCHANGED <<view, live, shortcutsrc, edits, order, call, iop, mapped, input_drivers, given, mapping_widget, keyVars>>

\* _action_define, lines 2571-2602, once the dialog is built
\* (accel_initialising is FALSE): the combo of the lib module gets its widget
ActionDefine ==
  /\ ~crashed
  /\ \E l \in dt_action_locate(actions, <<"lib">>, <<"combo">>) :
       /\ crashed' = l.crashed
       /\ actions' = IF l.node = <<>> THEN l.tree
                     ELSE [l.tree EXCEPT ![l.node].type = "combo",
                                         ![l.node].target = "widget"]
       /\ UNCHANGED <<shortcuts, view, live, last, shortcutsrc, edits, order, read,
                      call, iop, mapped, input_drivers, given, mapping_widget, keyVars>>

\* _remove_widget_from_hashtable, lines 2482-2490: a widget is destroyed
RemoveWidget ==
  /\ ~crashed
  /\ \E p \in DOMAIN actions :
       /\ actions[p].target = "widget"
       /\ actions' = [actions EXCEPT ![p].target = "null"]
       /\ UNCHANGED <<storeVars, order, read, call, iop, mapped, input_drivers, given, mapping_widget, keyVars>>

InitLoad ==
  /\ StoreAtStart
  /\ view = DT_VIEW_LIGHTTABLE
  /\ live = Actions
  /\ order = NoOrder
  /\ DevAtStart
  /\ KeysAtStart

NextLoad == LoadOne \/ ActionDefine \/ RemoveWidget

SpecLoad == InitLoad /\ [][NextLoad]_vars

(***************************************************************************)
(* dt_register_input_driver, lines 290-308.  A module is the address of    *)
(* its dt_lib_module_t.                                                    *)
(***************************************************************************)
DriverModules == 1..MaxDrivers

\* callbacks->name of the driver of a module
DriverName(module) == IF module = 1 THEN "midi" ELSE "gamepad"

\* the entries of the list before the one of the module, all of them when the
\* module has none
DriversBefore(drivers, module) ==
  Cardinality({i \in 1..Len(drivers) :
                 \A j \in 1..i : drivers[j].module # module})

\* dt_register_input_driver if id started at 0, the id of the keyboard
dt_register_input_driverFromZero(drivers, module) ==
  [id |-> 10 * DriversBefore(drivers, module),
   drivers |-> IF \E i \in 1..Len(drivers) : drivers[i].module = module
               THEN drivers
               ELSE Append(drivers, [module |-> module, name |-> DriverName(module)])]

\* the id the function returns and the list it leaves: id starts at 10 and
\* grows by 10 for every entry that is not of the module (lines 292-300), and
\* a module without an entry gets one at the end (lines 302-305)
dt_register_input_driver(drivers, module) ==
  [id |-> 10 + 10 * DriversBefore(drivers, module),
   drivers |-> IF \E i \in 1..Len(drivers) : drivers[i].module = module
               THEN drivers
               ELSE Append(drivers, [module |-> module, name |-> DriverName(module)])]

RegisterDriver ==
  \E module \in DriverModules :
    LET r == dt_register_input_driver(input_drivers, module)
    IN /\ input_drivers' = r.drivers
       /\ given' = [all |-> given.all \cup {[module |-> module, id |-> r.id]},
                    module |-> module, id |-> r.id]
       /\ UNCHANGED <<storeVars, order, actions, read, call, iop, mapped, mapping_widget,
                      keyVars>>

InitDriver ==
  /\ StoreAtStart
  /\ view = DT_VIEW_LIGHTTABLE
  /\ live = Actions
  /\ order = NoOrder
  /\ DevAtStart
  /\ KeysAtStart

NextDriver == RegisterDriver

SpecDriver == InitDriver /\ [][NextDriver]_vars

(***************************************************************************)
(* The lists of the tree: nodes are located, registered, defined and       *)
(* renamed below the lib module.                                           *)
(***************************************************************************)
\* the labels of the nodes made below the lib module, and the labels a node
\* is renamed to
TreeLabels == {"more", "zoom."}

NewNames == TreeLabels \cup {"fit."}

\* the paths that are located or registered below the lib module
TreePaths ==
  {<<l>> : l \in TreeLabels \cup {"combo", "zoom="}} \cup {<<"zoom.", "more">>}

\* the paths dt_accel_register_shortcut is called with
RegisterPaths == TreePaths \ {<<"zoom=">>}

\* the node of the key-pressed action
KeyPressedNode == <<"lib", "accel">>

\* add_shortcut, lines 676-681: when insert_shortcut has added the binding s
\* of a key-pressed action that has its target, the key and the modifiers of
\* s are stored in the GtkAccelKey of the action
KeyStored(tree, o, s) ==
  IF /\ o.how \in {"new", "split"}
     /\ ActionType[s.action] = "key_pressed"
     /\ KeyPressedNode \in DOMAIN tree
     /\ tree[KeyPressedNode].target = "key"
  THEN [tree EXCEPT ![KeyPressedNode].key = [accel_key |-> s.key, accel_mods |-> s.mods]]
  ELSE tree

\* lines 2630-2661: the loop of dt_accel_register_shortcut over the elements
\* of the path; trans is the translated path split at '/', and an element it
\* does not have is its own translation (line 2638)
RECURSIVE RegisterFrom(_, _, _, _, _)
RegisterFrom(tree, owner, path, trans, k) ==
  IF k > Len(path) THEN {Located(tree, owner)}
  ELSE LET child == Append(owner, path_without_symbols(path[k]))
           translated == IF k <= Len(trans) THEN trans[k] ELSE path[k]
           made == Linked(tree, owner, path_without_symbols(path[k]), translated,
                          "section", "null")
       IN IF tree[owner].target \in {"widget", "key"}
            THEN {Fault(tree)} \cup RegisterFrom(made, child, path, trans, k + 1)
          ELSE IF tree[owner].target = "node" /\ child \in DOMAIN tree
            THEN RegisterFrom(tree, child, path, trans, k + 1)
          ELSE RegisterFrom(made, child, path, trans, k + 1)

\* a caller of dt_action_locate with the lib module as the owner
TreeLocate ==
  /\ ~crashed
  /\ \E path \in TreePaths :
       \E l \in dt_action_locate(actions, <<"lib">>, path) :
         /\ actions' = l.tree
         /\ crashed' = l.crashed
         /\ last' = Idle("locate")
         /\ UNCHANGED <<shortcuts, view, live, shortcutsrc, edits, order, read, call,
                        iop, mapped, input_drivers, given, mapping_widget, keyVars>>

\* dt_accel_register_shortcut, lines 2619-2698, below the lib module: the
\* nodes of the path are made where they are missing, and with an accel_key
\* the keymap knows the key is bound to the last node of the path; the
\* accelerator of the key-pressed action is registered once it is defined
RegisterShortcut ==
  /\ ~crashed
  /\ \E path \in RegisterPaths \cup ({<<"accel">>} \cap {p \in {<<"accel">>} :
                                                     KeyPressedNode \in DOMAIN actions}),
          n \in 0..1, accel_key \in {0} \cup Keys, known \in BOOLEAN :
       \E l \in RegisterFrom(actions, <<"lib">>, path,
                              [k \in 1..n |-> Q_(path[k])], 1) :
         /\ UNCHANGED <<view, live, shortcutsrc, edits, order, read, call, iop,
                        mapped, input_drivers, given, mapping_widget, keyVars>>
         /\ IF l.crashed \/ accel_key = 0 \/ ~known
            THEN /\ actions' = l.tree
                 /\ crashed' = l.crashed
                 /\ last' = Idle("register")
                 /\ UNCHANGED shortcuts
            ELSE \E o \in insert_shortcut(shortcuts,
                                          Shortcut(accel_key, 0, DT_SHORTCUT_MOVE_NONE,
                                                   PathName(l.node),
                                                   DT_SHORTCUT_EFFECT_DEFAULT_KEY),
                                          FALSE, view) :
                   /\ actions' = KeyStored(l.tree, o,
                                           Shortcut(accel_key, 0, DT_SHORTCUT_MOVE_NONE,
                                                    PathName(l.node),
                                                    DT_SHORTCUT_EFFECT_DEFAULT_KEY))
                   /\ shortcuts' = o.q
                   /\ crashed' = o.crashed
                   /\ last' = [op |-> "register", ret |-> o.ret, how |-> o.how,
                               declined |-> o.declined, idx |-> o.at, sib |-> o.sib]

\* the tree after dt_action_define_key_pressed_accel, lines 2559-2569: a
\* key-pressed action that points to the key of its caller is linked below the
\* lib module
dt_action_define_key_pressed_accel(tree, key) ==
  [Linked(tree, <<"lib">>, path_without_symbols("accel"), Q_("accel"), "key_pressed",
          "key")
     EXCEPT ![KeyPressedNode].key = [NoKey EXCEPT !.accel_key = key]]

DefineKeyPressed ==
  /\ ~crashed
  /\ \E key \in Keys :
       /\ KeyPressedNode \notin DOMAIN actions
       /\ actions' = dt_action_define_key_pressed_accel(actions, key)
       /\ last' = Idle("define")
       /\ UNCHANGED <<shortcuts, view, live, crashed, shortcutsrc, edits, order, read,
                      call, iop, mapped, input_drivers, given, mapping_widget, keyVars>>

\* the tree if the loop of lines 2773-2782 did not find the node
StillLinked(tree, action) == tree

\* lines 2773-2782: the node is taken out of the list of its owner
Unlinked(tree, action) ==
  LET owner == SubSeq(action, 1, Len(action) - 1)
      list == SelectSeq(tree[owner].below, LAMBDA l : l # action[Len(action)])
  IN [p \in DOMAIN tree \ {action} |->
        IF p = owner
        THEN [tree[p] EXCEPT !.below = list,
                             !.target = IF list = <<>> THEN "null" ELSE @]
        ELSE tree[p]]

\* dt_action_rename, lines 2768-2811, of a node below the lib module that has
\* no nodes below it: with a new name the node is linked again under its new
\* label and the bindings of the action stay with it; without one the
\* bindings of the action are removed and the node is freed; the file is saved
TreeRename ==
  /\ ~crashed
  /\ \E label \in NewNames, new_name \in NewNames \cup {""} :
       LET action == <<"lib", path_without_symbols(label)>>
           renamed == <<"lib", path_without_symbols(new_name)>>
       IN /\ action \in DOMAIN actions
          /\ actions[action].target # "node"
          /\ actions[action].type # "key_pressed"
          /\ renamed \notin DOMAIN actions
          /\ IF new_name # ""
             THEN LET node == actions[action]
                      linked == Linked(Unlinked(actions, action), <<"lib">>,
                                       path_without_symbols(new_name), Q_(new_name),
                                       node.type, node.target)
                  IN /\ actions' = [linked EXCEPT ![renamed].key = node.key]
                     /\ shortcuts' =
                          [i \in 1..Len(shortcuts) |->
                             IF shortcuts[i].action = PathName(action)
                             THEN [shortcuts[i] EXCEPT !.action = PathName(renamed)]
                             ELSE shortcuts[i]]
                     /\ UNCHANGED crashed
             ELSE LET r == RemoveAllOf(shortcuts, 1, PathName(action))
                  IN /\ actions' = Unlinked(actions, action)
                     /\ shortcuts' = r.q
                     /\ crashed' = r.crashed
          /\ shortcutsrc' = IF crashed' THEN shortcutsrc ELSE dt_shortcuts_save(shortcuts')
          /\ last' = Idle("rename")
          /\ UNCHANGED <<view, live, edits, order, read, call, iop, mapped, input_drivers, given, mapping_widget, keyVars>>

InitTree ==
  /\ StoreAtStart
  /\ view = DT_VIEW_LIGHTTABLE
  /\ live = Actions
  /\ order = NoOrder
  /\ DevAtStart
  /\ KeysAtStart

NextTree == TreeLocate \/ RegisterShortcut \/ DefineKeyPressed \/ TreeRename

SpecTree == InitTree /\ [][NextTree]_vars

(***************************************************************************)
(* Gestures assigned to the key-pressed action in the dialog.              *)
(***************************************************************************)
\* the device id of the driver that is registered first
DriverDevice == dt_register_input_driver(<<>>, 1).id

\* the gestures assigned to the key-pressed action: the key of the keyboard
\* or of the driver, alone or with ctrl, pressed once, twice or long or with
\* the left button (clicked once or twice), without a move, with the wheel or
\* with a move of the driver
AccelGestures ==
  UNION {{[Shortcut(k, f + d, g.move, a,
                    IF g.move # DT_SHORTCUT_MOVE_NONE
                    THEN DT_SHORTCUT_EFFECT_DEFAULT_MOVE
                    ELSE DT_SHORTCUT_EFFECT_DEFAULT_KEY)
            EXCEPT !.key_device = kd, !.move_device = g.device, !.mods = m] :
            k \in Keys, a \in KeyPressed,
            kd \in {DT_SHORTCUT_DEVICE_KEYBOARD_MOUSE, DriverDevice},
            m \in {0, GDK_CONTROL_MASK},
            f \in {0, DT_SHORTCUT_FLAG_PRESS_DOUBLE, DT_SHORTCUT_FLAG_PRESS_LONG,
                   DT_SHORTCUT_FLAG_BUTTON_LEFT,
                   DT_SHORTCUT_FLAG_BUTTON_LEFT + DT_SHORTCUT_FLAG_CLICK_DOUBLE},
            d \in IF g.move # DT_SHORTCUT_MOVE_NONE
                  THEN {DT_SHORTCUT_FLAG_DIR_UP, DT_SHORTCUT_FLAG_DIR_DOWN}
                  ELSE {DT_SHORTCUT_FLAG_DIR_UP}} :
           g \in {[move |-> DT_SHORTCUT_MOVE_NONE,
                   device |-> DT_SHORTCUT_DEVICE_KEYBOARD_MOUSE],
                  [move |-> DT_SHORTCUT_MOVE_SCROLL,
                   device |-> DT_SHORTCUT_DEVICE_KEYBOARD_MOUSE],
                  [move |-> DT_SHORTCUT_MOVE_SCROLL, device |-> DriverDevice]}}

\* define_new_mapping, lines 1889-1902, with the key-pressed action as the
\* action of the gesture
AssignAccel ==
  /\ ~crashed
  /\ \E s \in AccelGestures :
       \E o \in insert_shortcut(shortcuts, s, TRUE, view) :
         /\ shortcuts' = o.q
         /\ crashed' = o.crashed
         /\ actions' = KeyStored(actions, o, s)
         /\ last' = [op |-> "assign", ret |-> o.ret, how |-> o.how,
                     declined |-> o.declined, idx |-> o.at, sib |-> o.sib]
         /\ call' = [s |-> s, confirm |-> TRUE, asked |-> o.asked, flags |-> o.flags,
                     widget |-> NoWidget, looked |-> FALSE]
         /\ shortcutsrc' = IF o.crashed THEN shortcutsrc ELSE dt_shortcuts_save(o.q)
         /\ UNCHANGED <<view, live, edits, order, read, iop, mapped, input_drivers,
                        given, mapping_widget, keyVars>>

\* the key-pressed action is defined with no key and a driver is registered
InitAccel ==
  /\ StoreAtStart
  /\ view = DT_VIEW_LIGHTTABLE
  /\ live = Actions \cup KeyPressed
  /\ order = NoOrder
  /\ actions = dt_action_define_key_pressed_accel(ActionTree, 0)
  /\ read = NoLine
  /\ call = NoCall
  /\ iop = <<>>
  /\ mapped = NoMapping
  /\ input_drivers = dt_register_input_driver(<<>>, 1).drivers
  /\ given = [all |-> {[module |-> 1, id |-> DriverDevice]}, module |-> 1,
              id |-> DriverDevice]
  /\ mapping_widget = NoWidget
  /\ KeysAtStart

NextAccel == AssignAccel

SpecAccel == InitAccel /\ [][NextAccel]_vars

(***************************************************************************)
(* insert_shortcut called by define_new_mapping and by dt_shortcuts_load,  *)
(* with gestures and lines that differ in the key, the modifiers, the      *)
(* press flags and the move                                                *)
(***************************************************************************)
\* the gestures of the keyboard and the actions they are used for: key a with
\* the wheel for both actions of the image operation, ctrl and key a with the
\* wheel and key b with the wheel for its combo, key a pressed twice for its
\* slider
SlotShapes ==
  {[key |-> 1, mods |-> 0, flags |-> 0, move |-> DT_SHORTCUT_MOVE_SCROLL,
    for |-> {"iop/slider", "iop/combo"}],
   [key |-> 1, mods |-> GDK_CONTROL_MASK, flags |-> 0, move |-> DT_SHORTCUT_MOVE_SCROLL,
    for |-> {"iop/combo"}],
   [key |-> 1, mods |-> 0, flags |-> DT_SHORTCUT_FLAG_PRESS_DOUBLE,
    move |-> DT_SHORTCUT_MOVE_NONE, for |-> {"iop/slider"}],
   [key |-> 2, mods |-> 0, flags |-> 0, move |-> DT_SHORTCUT_MOVE_SCROLL,
    for |-> {"iop/combo"}]}

\* the actions of the image operation, both shown in the darkroom
SlotActions == {"iop/slider", "iop/combo"}

\* dt_shortcut_move, lines 2140-2145: the descriptors of the completed
\* gestures; a scroll has the direction of its delta, a press is up
SlotGestures ==
  UNION {{[Shortcut(g.key, g.flags + d, g.move, a,
                    IF g.move # DT_SHORTCUT_MOVE_NONE
                    THEN DT_SHORTCUT_EFFECT_DEFAULT_MOVE
                    ELSE DT_SHORTCUT_EFFECT_DEFAULT_KEY) EXCEPT !.mods = g.mods] :
            a \in g.for,
            d \in IF g.move = DT_SHORTCUT_MOVE_NONE THEN {DT_SHORTCUT_FLAG_DIR_UP}
                  ELSE {DT_SHORTCUT_FLAG_DIR_UP, DT_SHORTCUT_FLAG_DIR_DOWN}} :
           g \in SlotShapes}

\* the lines of a shortcutsrc for the same keys: the move, with and without
\* a direction and with the name of the first effect, or the press
SlotLines ==
  UNION {{[key |-> <<Word(gtk_accelerator_name(g.key))>>
                   \o NamesOfBits(modifier_string, g.mods) \o l.m,
           action |-> a, rest |-> l.r] :
            a \in g.for,
            l \in IF g.move = DT_SHORTCUT_MOVE_NONE
                  THEN {[m |-> <<Word("double")>>, r |-> <<>>]}
                  ELSE {[m |-> <<Word("scroll")>>, r |-> <<>>],
                        [m |-> <<Word("scroll"), Word("up")>>, r |-> <<>>],
                        [m |-> <<Word("scroll"), Word("down")>>, r |-> <<>>],
                        [m |-> <<Word("scroll")>>, r |-> <<Word("reset")>>]}} :
           g \in SlotShapes}

\* what a call of insert_shortcut leaves
Called(o, s, confirm, op) ==
  /\ shortcuts' = o.q
  /\ crashed' = o.crashed
  /\ last' = [op |-> op, ret |-> o.ret, how |-> o.how, declined |-> o.declined,
              idx |-> o.at, sib |-> o.sib]
  /\ call' = [s |-> s, confirm |-> confirm, asked |-> o.asked,
              flags |-> o.flags, widget |-> NoWidget, looked |-> FALSE]
  /\ UNCHANGED <<view, live, edits, order, actions, read, iop, mapped, input_drivers, given, mapping_widget, keyVars>>

\* define_new_mapping, lines 1889-1902
DefineMapping ==
  /\ ~crashed
  /\ \E s \in SlotGestures :
       \E o \in insert_shortcut(shortcuts, s, TRUE, view) :
         /\ Len(o.q) <= MaxSlots
         /\ Called(o, s, TRUE, "assign")
         /\ shortcutsrc' = IF o.crashed THEN shortcutsrc ELSE dt_shortcuts_save(o.q)

\* dt_shortcuts_load (clear = FALSE), lines 1611-1810, when darktable starts:
\* one more line of the file is read and inserted
LoadMapping ==
  /\ ~crashed
  /\ last.op \in {"init", "load"}
  /\ \E line \in SlotLines :
       LET s == ParseLine(line)
       IN \E o \in insert_shortcut(shortcuts, s, FALSE, view) :
            /\ Len(o.q) <= MaxSlots
            /\ Called(o, s, FALSE, "load")
            /\ UNCHANGED shortcutsrc

InitCall ==
  /\ StoreAtStart
  /\ view = DT_VIEW_DARKROOM
  /\ live = SlotActions
  /\ order = NoOrder
  /\ DevAtStart
  /\ KeysAtStart

NextCall == DefineMapping \/ LoadMapping

SpecCall == InitCall /\ [][NextCall]_vars

(***************************************************************************)
(* process_mapping, lines 1937-1985: the module instance a binding of an   *)
(* action of an image operation acts on.  An instance of the list is its   *)
(* module (so), whether it is in the pipe (iop_order is not INT_MAX), and  *)
(* whether it has widgets and its first widget is the target of that       *)
(* widget's action (preferred).                                            *)
(***************************************************************************)
\* the image operation of the model and another one
Modules == {"iop", "other"}

\* the actions of the image operation a binding is looked up for: the module
\* itself and its slider
MappedActions == {"iop", "iop/slider"}

\* lines 1950-1975: the loop over the list from position i on, forward for an
\* instance that is not negative and backward otherwise; mod is the instance
\* visited last, 0 for NULL
RECURSIVE FindInstance(_, _, _, _, _, _)
FindInstance(list, i, mod, module, instance, current_instance) ==
  IF i < 1 \/ i > Len(list) THEN mod
  ELSE IF instance = 0 /\ list[i].preferred THEN i
  ELSE IF list[i].so = module /\ list[i].live
    THEN IF current_instance - 1 = 0 THEN i
         ELSE FindInstance(list, IF instance >= 0 THEN i + 1 ELSE i - 1, i, module,
                           instance, current_instance - 1)
  ELSE FindInstance(list, IF instance >= 0 THEN i + 1 ELSE i - 1, i, module,
                    instance, current_instance)

\* the instance if the loop of line 1950 started at the last instance for
\* every binding
ModuleInstanceFromLast(list, bac) ==
  LET entered == bac.instance # 0 \/ bac.action = "iop"
      current_instance == IF bac.instance < 0 THEN 0 - bac.instance ELSE bac.instance
  IN [sc |-> <<>>, action |-> bac.action, instance |-> bac.instance,
      entered |-> entered,
      mod |-> IF entered
              THEN FindInstance(list, Len(list), 0, "iop", bac.instance, current_instance)
              ELSE 0]

\* lines 1937-1975 for a binding bac of an action below the module "iop"
ModuleInstance(list, bac) ==
  LET entered == bac.instance # 0 \/ bac.action = "iop"
      current_instance == IF bac.instance < 0 THEN 0 - bac.instance ELSE bac.instance
  IN [sc |-> <<>>, action |-> bac.action, instance |-> bac.instance,
      entered |-> entered,
      mod |-> IF entered
              THEN FindInstance(list, IF bac.instance >= 0 THEN 1 ELSE Len(list), 0,
                                "iop", bac.instance, current_instance)
              ELSE 0]

\* the lists of at most MaxInstances instances; the target of an action is one
\* widget, so at most one instance of a module is preferred
InstanceLists ==
  {l \in UNION {[1..n -> [so : Modules, live : BOOLEAN, preferred : BOOLEAN]] :
                  n \in 1..MaxInstances} :
     \A i, j \in 1..Len(l) :
       (l[i].preferred /\ l[j].preferred /\ l[i].so = l[j].so) => i = j}

\* process_mapping, lines 1920-1985, for a gesture a binding is found for
ProcessMapping ==
  /\ mapped = NoMapping
  /\ \E a \in MappedActions, n \in (0 - MaxInstances)..MaxInstances :
       mapped' = ModuleInstance(iop, [action |-> a, instance |-> n])
  /\ UNCHANGED <<storeVars, order, actions, read, call, iop, input_drivers, given, mapping_widget, keyVars>>

InitInstance ==
  /\ StoreAtStart
  /\ view = DT_VIEW_DARKROOM
  /\ live = {"iop/slider"}
  /\ order = NoOrder
  /\ actions = ActionTree
  /\ read = NoLine
  /\ call = NoCall
  /\ iop \in InstanceLists
  /\ mapped = NoMapping
  /\ input_drivers = <<>>
  /\ given = NoDriver
  /\ mapping_widget = NoWidget
  /\ KeysAtStart

NextInstance == ProcessMapping

SpecInstance == InitInstance /\ [][NextInstance]_vars

(***************************************************************************)
(* process_mapping with the store: bindings are loaded, the view changes   *)
(* and a finalized gesture is looked up.                                   *)
(***************************************************************************)
\* the actions that have bindings loaded: of a lib module of both views, of a
\* module of the darkroom, and a fallback
BoundActions == {"lib/combo", "iop/slider", "sect/one"}

\* the gestures dt_shortcut_move finalizes: a key that lines bind or a key no
\* line binds, pressed once or twice or held while the wheel turns up or down
MapGestures ==
  UNION {{Shortcut(k, g.flags + d, g.move, "",
                   IF g.move # DT_SHORTCUT_MOVE_NONE
                   THEN DT_SHORTCUT_EFFECT_DEFAULT_MOVE
                   ELSE DT_SHORTCUT_EFFECT_DEFAULT_KEY) :
            k \in KeyCodes,
            d \in IF g.move # DT_SHORTCUT_MOVE_NONE
                  THEN {DT_SHORTCUT_FLAG_DIR_UP, DT_SHORTCUT_FLAG_DIR_DOWN}
                  ELSE {DT_SHORTCUT_FLAG_DIR_UP}} :
           g \in Shapes \cup {[flags |-> 0, move |-> DT_SHORTCUT_MOVE_NONE]}}

\* lines 1937-1985: the binding that was found and the instance of its module
Found(list, sc, bac) ==
  IF OwnerType[bac.action] = "iop"
  THEN [ModuleInstance(list, bac) EXCEPT !.sc = sc]
  ELSE [sc |-> sc, action |-> bac.action, instance |-> bac.instance,
        entered |-> FALSE, mod |-> 0]

\* process_mapping if it took the entry the search stopped at when no entry
\* compares equal
process_mappingClosest(q, list, sc, v) ==
  {IF q = <<>> THEN [NoMapping EXCEPT !.sc = sc] ELSE Found(list, sc, q[p]) :
     p \in {IF i > Len(q) THEN Len(q) ELSE i :
              i \in InsertPositions(q, [sc EXCEPT !.views = v], v)}}

\* process_mapping if line 1924 left the views of the descriptor empty
process_mappingNoView(q, list, sc, v) ==
  {IF existing = 0 THEN [NoMapping EXCEPT !.sc = sc] ELSE Found(list, sc, q[existing]) :
     existing \in LookupResults(q, [sc EXCEPT !.views = 0], v)}

\* process_mapping, lines 1920-1930 and 2123-2126: the descriptor gets the
\* view, the store is searched, and without an entry the function returns
process_mapping(q, list, sc, v) ==
  {IF existing = 0 THEN [NoMapping EXCEPT !.sc = sc] ELSE Found(list, sc, q[existing]) :
     existing \in LookupResults(q, [sc EXCEPT !.views = v], v)}

\* dt_shortcut_move, lines 2135-2186, outside the dialog: the gesture is
\* handed to process_mapping
ProcessGesture ==
  /\ ~crashed
  /\ mapped = NoMapping
  /\ \E sc \in MapGestures :
       /\ mapped' \in process_mapping(shortcuts, iop, sc, view)
       /\ out' = sc.flags
       /\ last' = Idle("map")
       /\ UNCHANGED <<shortcuts, view, live, crashed, shortcutsrc, edits, order, actions,
                      read, call, iop, input_drivers, given, mapping_widget, pressed_keys, _sc,
                      _last_time, _timeout_source, sources, _pressed_button,
                      buttons, motionVars, now, streak>>

InitMap ==
  /\ StoreAtStart
  /\ view = DT_VIEW_LIGHTTABLE
  /\ live = BoundActions
  /\ order = NoOrder
  /\ DevAtStart
  /\ KeysAtStart

NextMap == LoadLine \/ SelectView \/ ProcessGesture

SpecMap == InitMap /\ [][NextMap]_vars

(***************************************************************************)
(* Mapping a widget or a row of the dialog: the next gesture that          *)
(* dt_shortcut_move completes is assigned instead of dispatched.           *)
(***************************************************************************)
\* the lists of the instances when a widget is mapped: the first widget of no
\* instance is looked at for a binding with an instance, the instances of the
\* other module are in the pipe, and at most one instance of the list is not
\* an instance of the image operation in the pipe
WidgetLists ==
  {l \in InstanceLists :
     /\ \A i \in 1..Len(l) : ~l[i].preferred /\ (l[i].so = "other" => l[i].live)
     /\ Cardinality({i \in 1..Len(l) : l[i].so = "other" \/ ~l[i].live}) <= 1}

\* the widgets of the slider of the image operation, one in each instance of
\* it; any one of them may be the target of the action
WidgetsOf(list) ==
  {[mod |-> m, action |-> "iop/slider", target |-> t] :
     m \in {i \in 1..Len(list) : list[i].so = "iop"}, t \in BOOLEAN}

\* the gestures dt_shortcut_move completes, lines 2140-2145
WidgetGestures ==
  {[g EXCEPT !.action = ""] :
     g \in {x \in SlotGestures :
              /\ x.key = 1 /\ x.mods = 0
              /\ BitAnd(x.flags, DT_SHORTCUT_FLAG_DIR_DOWN) = 0}}

\* define_new_mapping if lines 1898-1899 were left out
define_new_mappingKeeping(q, sc, widget, v) ==
  {[o |-> o, action |-> sc.action, instance |-> sc.instance, widget |-> widget] :
     o \in insert_shortcut(q, sc, TRUE, v)}

\* define_new_mapping, lines 1889-1902: what insert_shortcut made of the store
\* and what is left of the action, the instance and the widget
define_new_mapping(q, sc, widget, v) ==
  {[o |-> o, action |-> "", instance |-> 0, widget |-> NoWidget] :
     o \in insert_shortcut(q, sc, TRUE, v)}

\* the rows of the tree of the actions that are activated
Rows == {"iop/combo"}

\* the shortcutsrc that was loaded when darktable started: none, or one line
LoadedFiles ==
  {<<>>, <<[key |-> <<Word("a"), Word("scroll")>>, action |-> "iop/combo", rest |-> <<>>]>>}

\* _action_row_activated, lines 1183-1193: a row of the tree of the actions
\* is activated in the dialog
ActionRowActivated ==
  /\ ~crashed
  /\ \E action \in Rows :
       _sc' = [_sc EXCEPT !.action = action, !.instance = 0]
  /\ UNCHANGED <<storeVars, order, devVars, pressed_keys, _last_time, _timeout_source,
                 sources, _pressed_button, buttons, motionVars, now, streak, out>>

\* dt_shortcut_move, lines 2135-2186, for a gesture that is complete
ShortcutMove ==
  /\ ~crashed
  /\ \E g \in WidgetGestures :
       LET size == IF BitAnd(g.flags, DT_SHORTCUT_FLAG_DIR_DOWN) # 0 THEN -1 ELSE 1
           lookup == mapping_widget # NoWidget /\ _sc.action = "" /\ size # 0
           looked == IF lookup
                     THEN lookup_mapping_widget(iop, mapping_widget, _sc.instance)
                     ELSE [action |-> _sc.action, instance |-> _sc.instance]
           s == [g EXCEPT !.action = looked.action, !.instance = looked.instance]
       IN /\ IF looked.action # ""
             THEN \E d \in define_new_mapping(shortcuts, s, mapping_widget, view) :
                    /\ Len(d.o.q) <= MaxMapped
                    /\ shortcuts' = d.o.q
                    /\ crashed' = d.o.crashed
                    /\ last' = [op |-> "assign", ret |-> d.o.ret, how |-> d.o.how,
                                declined |-> d.o.declined, idx |-> d.o.at,
                                sib |-> d.o.sib]
                    /\ call' = [s |-> s, confirm |-> TRUE, asked |-> d.o.asked,
                                flags |-> d.o.flags, widget |-> mapping_widget,
                                looked |-> lookup]
                    /\ _sc' = [_sc EXCEPT !.action = d.action, !.instance = d.instance]
                    /\ mapping_widget' = d.widget
                    /\ shortcutsrc' = IF d.o.crashed THEN shortcutsrc
                                      ELSE dt_shortcuts_save(d.o.q)
                    /\ UNCHANGED mapped
             ELSE /\ mapped' \in process_mapping(shortcuts, iop, g, view)
                  /\ last' = Idle("map")
                  /\ UNCHANGED <<shortcuts, crashed, call, _sc, mapping_widget,
                                 shortcutsrc>>
          /\ out' = g.flags
  /\ UNCHANGED <<view, live, edits, order, actions, read, iop, input_drivers, given,
                 pressed_keys, _last_time, _timeout_source, sources, _pressed_button,
                 buttons, motionVars, now, streak>>

InitWidget ==
  /\ shortcutsrc \in LoadedFiles
  /\ shortcuts \in IF shortcutsrc = <<>> THEN {<<>>}
                   ELSE {o.q : o \in insert_shortcut(<<>>, ParseLine(shortcutsrc[1]),
                                                     FALSE, DT_VIEW_DARKROOM)}
  /\ crashed = FALSE
  /\ last = Idle("init")
  /\ edits = 0
  /\ view = DT_VIEW_DARKROOM
  /\ live = SlotActions
  /\ order = NoOrder
  /\ actions = ActionTree
  /\ read = NoLine
  /\ call = NoCall
  /\ iop \in WidgetLists
  /\ mapped = NoMapping
  /\ input_drivers = <<>>
  /\ given = NoDriver
  /\ mapping_widget \in {NoWidget} \cup WidgetsOf(iop)
  /\ KeysAtStart

NextWidget == ActionRowActivated \/ ShortcutMove

SpecWidget == InitWidget /\ [][NextWidget]_vars

(***************************************************************************)
(* Properties of the binding store.                                        *)
(***************************************************************************)
Sorted(q, v) ==
  \A i \in 1..(Len(q) - 1) : shortcut_compare_func(q[i], q[i + 1], v) <= 0

\* the descriptors the dispatcher looks up: those of the gestures, with views
Queries == {find_views(s) : s \in Gestures}

LookupFinds(q, v) ==
  \A x \in Queries :
    (\E r \in 1..Len(q) : shortcut_compare_func(q[r], x, v) = 0)
      => 0 \notin LookupResults(q, x, v)

\* C1: after any sequence of inserts, removals, deletions of an action and
\* re-sorts for a view change the store is sorted under shortcut_compare_func
\* for the active view, so a lookup finds an entry whenever one compares equal
\* to the query.
C1_StoreSorted ==
  ~crashed => Sorted(shortcuts, view) /\ LookupFinds(shortcuts, view)

HasDirection(s) == BitAnd(s.flags, DT_SHORTCUT_FLAG_DIR_MASK) # 0

\* j holds the other half of the split pair i is a half of
IsSibling(q, i, j) ==
  /\ j # i
  /\ q[j].action = q[i].action /\ q[j].views = q[i].views
  /\ SameSlot(q[j], q[i])
  /\ HasDirection(q[j])
  /\ BitAnd(q[j].flags, DT_SHORTCUT_FLAG_DIR_MASK)
       # BitAnd(q[i].flags, DT_SHORTCUT_FLAG_DIR_MASK)

Siblings(q, i) == {j \in 1..Len(q) : IsSibling(q, i, j)}

\* C2: an entry has a direction bit only if exactly one sibling entry exists
\* (same action, views and slot, the opposite direction bit) and the two are
\* adjacent in the store.
C2_SplitPairsAdjacent ==
  ~crashed =>
    \A i \in 1..Len(shortcuts) :
      HasDirection(shortcuts[i]) =>
        /\ Cardinality(Siblings(shortcuts, i)) = 1
        /\ \A j \in Siblings(shortcuts, i) : j = i + 1 \/ j = i - 1

\* the entries that clash with the entry at i: another action, the same slot,
\* overlapping views
Clashing(q, i) ==
  {j \in 1..Len(q) :
     /\ q[j].action # q[i].action
     /\ SameSlot(q[j], q[i])
     /\ BitAnd(q[j].views, q[i].views) # 0}

\* C3: when insert_shortcut has added a new entry (load mode, or interactive
\* mode with the clash prompt answered yes) no entry of another action at the
\* same slot with overlapping views remains in the store.
C3_ClashesRemoved ==
  (last.op \in {"assign", "load"} /\ last.how = "new")
    => Clashing(shortcuts, last.idx) = {}

\* C4: an interactive assignment with a prompt answered no returns FALSE and
\* leaves the store as it was.
C4_DeclineKeepsStore ==
  [][(last'.op = "assign" /\ last'.declined)
       => (shortcuts' = shortcuts /\ ~last'.ret /\ ~crashed')]_vars

DifferOnlyInDirection(a, b) ==
  /\ [a EXCEPT !.flags = BitClear(@, DT_SHORTCUT_FLAG_DIR_MASK)]
       = [b EXCEPT !.flags = BitClear(@, DT_SHORTCUT_FLAG_DIR_MASK)]
  /\ BitAnd(a.flags, DT_SHORTCUT_FLAG_DIR_MASK) + BitAnd(b.flags, DT_SHORTCUT_FLAG_DIR_MASK)
       = DT_SHORTCUT_FLAG_DIR_MASK

\* the store that is left when the half at i of the pair {i, j} is taken out
\* and the half at j gets its direction bit cleared
Unsplit(q, i, j) ==
  RemoveAt([q EXCEPT ![j].flags = BitClear(@, DT_SHORTCUT_FLAG_DIR_MASK)], i)

\* C7: when an interactive assignment of a directional move has split the
\* non-directional move binding the action had at the slot, the two entries
\* are adjacent and differ only in the direction bit, and removing either of
\* them leaves the other as the original binding without a direction bit.
C7_SplitUnsplitInverse ==
  (last.op = "assign" /\ last.how = "split" /\ ~crashed) =>
    /\ last.idx = last.sib + 1 \/ last.idx = last.sib - 1
    /\ DifferOnlyInDirection(shortcuts[last.idx], shortcuts[last.sib])
    /\ remove_shortcut(shortcuts, last.idx)
         = [q |-> Unsplit(shortcuts, last.idx, last.sib), crashed |-> FALSE]
    /\ remove_shortcut(shortcuts, last.sib)
         = [q |-> Unsplit(shortcuts, last.sib, last.idx), crashed |-> FALSE]

\* C8: Delete on one half of a split pair removes that entry, clears the
\* direction bit of its sibling and changes no other entry.
C8_RemoveUnsplitsSibling ==
  [][(/\ last'.op = "delete"
      /\ last'.idx \in 1..Len(shortcuts)
      /\ HasDirection(shortcuts[last'.idx])
      /\ Siblings(shortcuts, last'.idx) # {})
       => /\ ~crashed'
          /\ \E j \in Siblings(shortcuts, last'.idx) :
               shortcuts' = Unsplit(shortcuts, last'.idx, j)]_vars

(***************************************************************************)
(* The file.                                                               *)
(***************************************************************************)
\* the fields of an entry the file is to keep
Tuple(s) ==
  [key_device |-> s.key_device, key |-> s.key, mods |-> s.mods,
   flags |-> s.flags, move_device |-> s.move_device, move |-> s.move,
   action |-> s.action, element |-> s.element, effect |-> s.effect,
   instance |-> s.instance, speed |-> s.speed]

Tuples(q) == {Tuple(q[i]) : i \in 1..Len(q)}

\* C5: when the file is what dt_shortcuts_save writes for the store, loading it
\* into an empty store gives a store with the same set of (key_device, key,
\* mods, flags, move_device, move, action, element, effect, instance, speed)
C5_SaveLoadRoundTrip ==
  [][(last'.op = "reinit" /\ shortcutsrc = dt_shortcuts_save(shortcuts) /\ ~crashed')
       => Tuples(shortcuts') = Tuples(shortcuts)]_vars

(***************************************************************************)
(* The comparator.                                                         *)
(***************************************************************************)
\* C6: under a fixed view the comparator is a strict weak order on bindings
\* that can be in the store together: compare(a, b) and compare(b, a) have
\* opposite signs, compare(a, b) < 0 and compare(b, c) < 0 give
\* compare(a, c) < 0, and when a and b compare equal, a and b compare to c
\* alike
C6_StrictWeakOrder ==
  order.result # <<>> =>
    LET r == order.result
    IN /\ r.ab = 0 - r.ba
       /\ (r.ab < 0 /\ r.bc < 0) => r.ac < 0
       /\ r.ab = 0 => r.ac = r.bc

(***************************************************************************)
(* Key presses.                                                            *)
(***************************************************************************)
HasFlag(flags, f) == flags >= 0 /\ BitAnd(flags, f) # 0

C10_LongPress ==
  [][/\ (/\ pressed_keys # <<>> /\ pressed_keys' = <<>>
         /\ pressed_keys = <<streak.key>>
         /\ now - streak.press > 2 * Delay)
          => HasFlag(out', DT_SHORTCUT_FLAG_PRESS_LONG)
     /\ HasFlag(out', DT_SHORTCUT_FLAG_PRESS_LONG)
          => /\ ~HasFlag(out', DT_SHORTCUT_FLAG_PRESS_DOUBLE)
             /\ ~HasFlag(out', DT_SHORTCUT_FLAG_PRESS_TRIPLE)]_vars

\* C11: after a focus-loss, window-state or grab-broken event no key is held,
\* no finalize timer is pending, and the key, the modifiers and the flags of
\* the shortcut under construction are cleared, so that nothing is dispatched
\* until a key is pressed again (streak.key is 0 from the event to that press)
C11_FocusLossResets ==
  [][/\ FocusOut => /\ pressed_keys' = <<>>
                    /\ _timeout_source' = 0
                    /\ _sc'.key = 0 /\ _sc'.mods = 0 /\ _sc'.flags = 0
     /\ out' >= 0 => streak'.key # 0]_vars

\* the path runs on past a node of the tree that has the type of a leaf
PastLeaf(tree, path) ==
  \E k \in 1..(Len(path) - 1) :
    /\ SubSeq(path, 1, k) \in DOMAIN tree
    /\ tree[SubSeq(path, 1, k)].type \notin ContainerTypes

\* what makes a line malformed: no '=', a word that is no token before or after
\* the '=', a driver that is not registered in a key or a move token, or a path
\* that cannot be located: it ends on a node that holds other nodes or runs
\* on past a leaf
Malformed(line, tree) ==
  \/ ~line.assignment
  \/ \E i \in 1..Len(line.key) :
       line.key[i].kind = "driver" \/ line.key[i].text = "bogus"
  \/ \E i \in 1..Len(line.rest) : line.rest[i].text = "bogus"
  \/ PastLeaf(tree, line.path)
  \/ line.path \in DOMAIN tree /\ tree[line.path].type \in ContainerTypes

\* C12: dt_shortcuts_load skips a malformed line: the store is what it was
\* before the line, the line is reported as skipped, and the load goes on
C12_MalformedLineSkipped ==
  [][(read'.n = read.n + 1 /\ Malformed(read'.line, actions))
       => (shortcuts' = shortcuts /\ read'.skipped /\ ~crashed')]_vars

\* C13: when the path of a line runs on past a leaf, dt_action_locate returns
\* no node and makes no node, and dt_shortcuts_load makes no binding
C13_NoNodeBelowLeaf ==
  [][(/\ read'.n = read.n + 1
      /\ read'.line.assignment
      /\ read'.line.key[1].kind # "driver"
      /\ PastLeaf(actions, read'.line.path))
       => (read'.node = <<>> /\ DOMAIN actions' = DOMAIN actions
           /\ shortcuts' = shortcuts)]_vars

\* the entries of a store, with how often each occurs
EntriesOf(q) == [e \in {q[i] : i \in 1..Len(q)} |-> Cardinality({i \in 1..Len(q) : q[i] = e})]

\* C14: after dt_action_rename(action, NULL) has returned no entry of the store
\* refers to the deleted action, the entries of the other actions are the
\* ones they were, and every entry refers to an action that is still there
C14_RenameRemovesBindings ==
  [][(last'.op = "rename" /\ live' # live /\ ~crashed')
       => LET others == SelectSeq(shortcuts, LAMBDA e : e.action \in live')
          IN /\ \A i \in 1..Len(shortcuts') : shortcuts'[i].action \in live'
             /\ EntriesOf(shortcuts') = EntriesOf(others)]_vars

\* a step that is a call of insert_shortcut that returns
IsCall == last'.op \in {"assign", "load"} /\ ~crashed'

\* C15: insert_shortcut leaves alone every entry whose slot differs from the
\* slot of the new binding: each is in the store afterwards as often as
\* before, and when every entry differs in its slot nothing is asked and the
\* binding is added
C15_OtherSlotsUntouched ==
  [][IsCall =>
       LET s == call'.s
           other(e) == ~SameSlot(e, s)
       IN /\ EntriesOf(SelectSeq(shortcuts', other)) = EntriesOf(SelectSeq(shortcuts, other))
          /\ (\A i \in 1..Len(shortcuts) : other(shortcuts[i]))
               => /\ call'.asked = {}
                  /\ last'.ret
                  /\ Len(shortcuts') = Len(shortcuts) + 1]_vars

SameBinding(q, s) == {i \in 1..Len(q) : SameSlot(q[i], s) /\ q[i].action = s.action}

\* the split case of lines 747-760
SplitCase(e) == _shortcut_is_move(e) /\ e.effect # DT_SHORTCUT_EFFECT_DEFAULT_MOVE

\* assigning the gesture s to a store q without a prompt and assigning it once
\* more, with the removal confirmed, leaves q
AssignedTwice(q, s, v) ==
  \A o \in insert_shortcut(q, s, TRUE, v) :
    (o.how = "new" /\ o.asked = {} /\ ~o.crashed)
      => \A p \in insert_shortcut(o.q, s, TRUE, v) :
           (p.how = "removed" /\ ~p.crashed) => p.q = q

\* C19: when one entry at the slot of the new binding is bound to its action
\* and is not split, insert_shortcut returns FALSE and adds nothing; settings
\* that differ are overwritten (always when a file is loaded) or kept, an
\* identical entry is removed when that is confirmed, the rest of the store
\* stays; a gesture assigned twice leaves the store as it was
C19_SameActionSameSlot ==
  [][/\ (IsCall /\ Cardinality(SameBinding(shortcuts, call'.s)) = 1)
          => LET s == call'.s
                 i == CHOOSE j \in SameBinding(shortcuts, s) : TRUE
                 e == shortcuts[i]
                 reset == [shortcuts EXCEPT ![i] =
                             [e EXCEPT !.element = s.element, !.effect = s.effect,
                                       !.speed = s.speed, !.instance = s.instance]]
             IN ~SplitCase(e)
                  => /\ ~last'.ret
                     /\ IF SettingsDiffer(e, s)
                        THEN shortcuts' = reset \/ (call'.confirm /\ shortcuts' = shortcuts)
                        ELSE \/ shortcuts' = shortcuts
                             \/ call'.confirm /\ shortcuts' = RemoveAt(shortcuts, i)
     /\ \A s \in SlotGestures : AssignedTwice(shortcuts, s, view)]_vars

\* the flags of a binding without the direction bits
MaskedFlags(s) == BitClear(s.flags, DT_SHORTCUT_FLAG_DIR_MASK)

\* C20: two bindings of the same view group, key device and key whose flags
\* differ outside the direction bits are ordered by their flags without the
\* direction bits: the comparator has the sign of their difference
C20_OrderedByMaskedFlags ==
  (/\ order.result # <<>>
   /\ InView(order.a, order.view) = InView(order.b, order.view)
   /\ order.a.key_device = order.b.key_device
   /\ order.a.key = order.b.key
   /\ MaskedFlags(order.a) # MaskedFlags(order.b))
    => order.result.ab = Sign(MaskedFlags(order.a) - MaskedFlags(order.b))

\* the places of the instances of the module "iop" that are in the pipe, in
\* the order of the list
LiveInstances(list) ==
  SelectSeq([i \in 1..Len(list) |-> i], LAMBDA i : list[i].so = "iop" /\ list[i].live)

\* C16: with N instances of the module in the pipe, the instance +k of a
\* binding, 1 <= k <= N, is the k-th of them from the first and the instance -k
\* the k-th from the last
C16_InstanceByCount ==
  LET those == LiveInstances(iop)
      k == IF mapped.instance < 0 THEN 0 - mapped.instance ELSE mapped.instance
  IN (mapped # NoMapping /\ 1 <= k /\ k <= Len(those))
       => mapped.mod = IF mapped.instance > 0 THEN those[k]
                       ELSE those[Len(those) + 1 - k]

\* the second of three instances of the module, counted from the last, with an
\* instance of the other module between them
C16_Witness ==
  /\ mapped # NoMapping /\ mapped.instance = -2
  /\ Len(LiveInstances(iop)) = 2 /\ Len(iop) = 3
  /\ mapped.mod = LiveInstances(iop)[1]
  /\ iop[2].so = "other"

\* C17: the instance 0 of a binding is the instance of the module of its
\* action that is preferred, when there is one
C17_PreferredOfOwnModule ==
  (/\ mapped # NoMapping /\ mapped.instance = 0 /\ mapped.entered
   /\ \E i \in 1..Len(iop) : iop[i].so = "iop" /\ iop[i].preferred)
    => /\ mapped.mod # 0
       /\ iop[mapped.mod].so = "iop"
       /\ iop[mapped.mod].preferred

(***************************************************************************)
(* The view groups of the comparator.                                      *)
(***************************************************************************)
\* the group of a binding under a view: 0 when its views meet the view, 1
\* when it has views and none of them is the view, 2 when it has no views
ViewGroup(s, v) ==
  IF s.views = 0 THEN 2 ELSE IF BitAnd(s.views, v) # 0 THEN 0 ELSE 1

\* C21: under a view, a binding whose views meet the view sorts before every
\* binding with views that do not meet it, and a binding without views (a
\* fallback) sorts after every binding with views, whatever the other fields
C21_ViewGroupsInOrder ==
  order.result # <<>> =>
    /\ ViewGroup(order.a, order.view) < ViewGroup(order.b, order.view)
         => (order.result.ab < 0 /\ order.result.ba > 0)
    /\ ViewGroup(order.b, order.view) < ViewGroup(order.c, order.view)
         => order.result.bc < 0

\* a binding in the view was compared with one of another view that sorts
\* before it by its flags, and a binding of another view with a fallback
C21_Witness ==
  /\ order.result # <<>>
  /\ ViewGroup(order.a, order.view) = 0
  /\ ViewGroup(order.b, order.view) = 1
  /\ ViewGroup(order.c, order.view) = 2
  /\ order.a.flags > order.b.flags
  /\ order.b.flags > order.c.flags
  /\ order.result.ab < 0
  /\ order.result.bc < 0

(***************************************************************************)
(* The lists of the tree.                                                  *)
(***************************************************************************)
\* the translated labels of the nodes of the list below owner, in its order
TranslatedBelow(tree, owner) ==
  [i \in 1..Len(ListBelow(tree, owner)) |->
     tree[Append(owner, ListBelow(tree, owner)[i])].label_translated]

C23_DeviceIds ==
  /\ \A g \in given.all :
       /\ g.id > 0
       /\ g.id % 10 = 0
       /\ g.id \div 10 \in 1..Len(input_drivers)
       /\ input_drivers[g.id \div 10].module = g.module
  /\ \A g, h \in given.all : (g.module = h.module) <=> (g.id = h.id)
  /\ Len(input_drivers) = Cardinality({g.module : g \in given.all})

\* three modules have registered and the second of them registered again
C23_Witness ==
  /\ Len(input_drivers) = 3
  /\ given.module = input_drivers[2].module
  /\ given.id = 20

(***************************************************************************)
(* Lines that name nodes the tree does not have.                           *)
(***************************************************************************)
\* the nodes on the way to the node of the path, the node itself included
Segments(path) == {SubSeq(path, 1, k) : k \in 1..Len(path)}

\* the line read is the key alone, '=' and a path
BareKeyLine(line) ==
  line.assignment /\ line.key = <<Word("a")>> /\ line.rest = <<>>

\* C24: a line of the bare key and a path with segments the tree does not
\* have makes the missing nodes, sections on the way and the leaf at the end,
\* and inserts one binding of the key to the leaf, without modifiers, flags or
\* move, with element 0, the default key effect, instance 0 and speed 1
C24_MissingSegmentsCreated ==
  [][(/\ read'.n = read.n + 1
      /\ BareKeyLine(read'.line)
      /\ read'.line.path \notin DOMAIN actions)
       => LET path == read'.line.path
              bound == {i \in 1..Len(shortcuts') :
                          shortcuts'[i].action = PathName(path)}
          IN /\ ~crashed'
             /\ Segments(path) \subseteq DOMAIN actions'
             /\ \A p \in Segments(path) \ (DOMAIN actions \cup {path}) :
                  actions'[p].type = "section"
             /\ actions'[path].type \notin ContainerTypes
             /\ Cardinality(bound) = 1
             /\ \A i \in bound :
                  /\ shortcuts'[i].key # 0
                  /\ shortcuts'[i].key_device = DT_SHORTCUT_DEVICE_KEYBOARD_MOUSE
                  /\ shortcuts'[i].mods = 0
                  /\ shortcuts'[i].flags = 0
                  /\ shortcuts'[i].move = DT_SHORTCUT_MOVE_NONE
                  /\ shortcuts'[i].element = 0
                  /\ shortcuts'[i].effect = DT_SHORTCUT_EFFECT_DEFAULT_KEY
                  /\ shortcuts'[i].instance = 0
                  /\ shortcuts'[i].speed = 1]_vars

(***************************************************************************)
(* Bindings of a key-pressed action.                                       *)
(***************************************************************************)
\* the binding uses a key that is not of the keyboard, a move or the device
\* of a move, a double, triple or long press, or a button
MoreThanKey(s) ==
  \/ s.key_device # DT_SHORTCUT_DEVICE_KEYBOARD_MOUSE
  \/ s.move_device # DT_SHORTCUT_DEVICE_KEYBOARD_MOUSE
  \/ s.move # DT_SHORTCUT_MOVE_NONE
  \/ \E f \in {DT_SHORTCUT_FLAG_PRESS_DOUBLE, DT_SHORTCUT_FLAG_PRESS_TRIPLE,
                DT_SHORTCUT_FLAG_PRESS_LONG, DT_SHORTCUT_FLAG_BUTTON_LEFT,
                DT_SHORTCUT_FLAG_BUTTON_MIDDLE, DT_SHORTCUT_FLAG_BUTTON_RIGHT} :
       HasFlag(s.flags, f)

\* C25: insert_shortcut for a key-pressed action, called with a binding that
\* uses more than a key of the keyboard and modifiers, returns FALSE and
\* leaves the store and the key stored for the action as they were
C25_KeyPressedRejects ==
  [][(last'.op = "assign" /\ MoreThanKey(call'.s))
       => /\ ~last'.ret
          /\ shortcuts' = shortcuts
          /\ actions'[KeyPressedNode].key = actions[KeyPressedNode].key]_vars

\* the key with ctrl is bound to the action and stored as its accelerator,
\* and the key with the wheel has been turned down
C25_Witness ==
  /\ last.op = "assign"
  /\ ~last.ret
  /\ call.s.move = DT_SHORTCUT_MOVE_SCROLL
  /\ Len(shortcuts) = 1
  /\ shortcuts[1].mods = GDK_CONTROL_MASK
  /\ actions[KeyPressedNode].key.accel_mods = GDK_CONTROL_MASK
  /\ actions[KeyPressedNode].key.accel_key # 0

(***************************************************************************)
(* Gestures without a binding.                                             *)
(***************************************************************************)
\* the entry is a binding of the gesture in the view: it is of the view, of
\* the same key, modifiers, press flags and move, and it is not the half of
\* the other direction
Matches(e, sc, v) ==
  /\ BitAnd(e.views, v) # 0
  /\ e.key_device = sc.key_device /\ e.key = sc.key /\ e.mods = sc.mods
  /\ e.move_device = sc.move_device /\ e.move = sc.move
  /\ MaskedFlags(e) = MaskedFlags(sc)
  /\ ~(HasDirection(e) /\ HasDirection(sc)
       /\ BitAnd(e.flags, DT_SHORTCUT_FLAG_DIR_MASK)
            # BitAnd(sc.flags, DT_SHORTCUT_FLAG_DIR_MASK))

\* C26: when the finalized gesture has no binding in the store for the view,
\* process_mapping invokes the target of no action and changes neither the
\* store nor the tree of the actions
C26_NoBindingNoEffect ==
  [][(/\ last'.op = "map"
      /\ mapped'.sc # <<>>
      /\ \A i \in 1..Len(shortcuts) : ~Matches(shortcuts[i], mapped'.sc, view))
       => /\ mapped'.action = ""
          /\ shortcuts' = shortcuts
          /\ actions' = actions]_vars

\* the key has bindings in the store, none of them of the view, and its
\* gesture was handed to process_mapping, which found nothing
C26_Witness ==
  /\ last.op = "map"
  /\ mapped.sc # <<>>
  /\ mapped.action = ""
  /\ \E i \in 1..Len(shortcuts) :
       /\ shortcuts[i].key = mapped.sc.key
       /\ shortcuts[i].move = mapped.sc.move
       /\ MaskedFlags(shortcuts[i]) = MaskedFlags(mapped.sc)
       /\ shortcuts[i].views # 0
  /\ \A i \in 1..Len(shortcuts) : ~Matches(shortcuts[i], mapped.sc, view)


\* a key that was not down goes down
KeyGoesDown == Len(pressed_keys') > Len(pressed_keys)

\* a mouse button goes down
ButtonGoesDown == Cardinality(buttons') > Cardinality(buttons)

\* C27: the deferred finalize callback is single-shot: at most one finalize
\* timer is pending at any time, and the press of a key that is not held or of
\* a button before the timer fires cancels it, so that a deferred gesture is
\* finalized once, by the timer or by a later immediate finalization
C27_SingleShotTimer ==
  [][/\ Cardinality(sources') <= 1
     /\ (KeyGoesDown \/ ButtonGoesDown) => sources' = {}]_vars


\* every key and every button is up and no timeout is pending
AllReleased == pressed_keys = <<>> /\ buttons = {} /\ sources = {}

\* C28: once all held keys and buttons have been released and any pending
\* finalize timer has fired, the shortcut under construction is empty: its key
\* device and key are 0 and its modifiers and flags are 0 (its move is none
\* between any two events, dt_shortcut_move resets it at line 2182)
C28_RecordReset ==
  AllReleased => /\ _sc.key_device = 0 /\ _sc.key = 0
                 /\ _sc.mods = 0 /\ _sc.flags = 0


\* the key that was pressed last goes up and no key is down any more
LastKeyGoesUp == pressed_keys = <<_sc.key>> /\ pressed_keys' = <<>>

\* C29: when the release of the key pressed last empties the set of the held
\* keys: within the double-click interval of the last press and without the
\* triple-press flag a finalize timer is armed for the rest of the interval
\* and the gesture is dispatched when it fires; otherwise the gesture is
\* dispatched at once, with the long-press flag exactly when more than twice
\* the interval has passed
C29_ReleaseOfLastKey ==
  [][LET passed_time == now - _last_time
     IN /\ LastKeyGoesUp =>
             IF /\ passed_time < Delay
                /\ ~HasFlag(_sc.flags, DT_SHORTCUT_FLAG_PRESS_TRIPLE)
             THEN /\ out' = -1
                  /\ \E x \in sources' : /\ x.id = _timeout_source'
                                         /\ x.due = now + (Delay - passed_time)
             ELSE /\ out' >= 0
                  /\ sources' = {}
                  /\ HasFlag(out', DT_SHORTCUT_FLAG_PRESS_LONG)
                       <=> passed_time > 2 * Delay
        /\ TimerFire => out' >= 0]_vars


\* the requested binding has a direction bit
WithDirection(s) == BitAnd(s.flags, DT_SHORTCUT_FLAG_DIR_MASK) # 0

\* C30: when insert_shortcut adds a new entry at a slot where the action had
\* no entry, the new entry has no direction bit, whatever direction bits the
\* gesture or the line had, and the direction bits of the descriptor of the
\* caller are cleared
C30_NewEntryHasNoDirection ==
  [][(last'.op \in {"assign", "load"} /\ last'.how = "new" /\ ~crashed')
       => /\ ~WithDirection(shortcuts'[last'.idx])
          /\ shortcuts'[last'.idx].action = call'.s.action
          /\ ~WithDirection(call')
          /\ call'.flags = BitClear(call'.s.flags, DT_SHORTCUT_FLAG_DIR_MASK)]_vars

\* a line with a direction token has been loaded as a new entry
C30_Witness ==
  /\ last.op = "load" /\ last.how = "new" /\ ~crashed
  /\ WithDirection(call.s)
  /\ call.s.move = DT_SHORTCUT_MOVE_SCROLL
  /\ \A i \in 1..Len(shortcuts) :
       (i # last.idx) => shortcuts[i].action # call.s.action


(***************************************************************************)
(* What dt_action_locate makes and returns.                                *)
(***************************************************************************)
\* the lists of the tree are sorted by translated label
SortedLists(tree) ==
  \A owner \in DOMAIN tree :
    LET labels == TranslatedBelow(tree, owner)
    IN \A i \in 1..(Len(labels) - 1) : g_utf8_collate(labels[i], labels[i + 1]) <= 0

\* the node is a section that holds no node
ChildlessSection(tree, node) ==
  node \in DOMAIN tree /\ tree[node].type = "section" /\ tree[node].target = "null"

\* what the claim says of a call that located path in the tree before and
\* left the tree after and the node
LocatedAsSections(before, after, path, node, fault) ==
  /\ ~fault
  /\ Segments(path) \subseteq DOMAIN after
  /\ \A p \in Segments(path) \ (DOMAIN before \cup {path}) :
       after[p].type = "section"
  /\ \A p \in DOMAIN before \ {path} : after[p].type = before[p].type
  /\ SortedLists(before) => SortedLists(after)
  /\ (path \notin DOMAIN before \/ ChildlessSection(before, path))
       => (node = path /\ after[path].type = "closure")

\* C31: dt_action_locate makes a section, linked in the order of the
\* translated labels, for every element of the path that does not exist, and
\* the node at the end of the path, when it is new or a section without
\* nodes, is returned as a closure, while the new nodes on the way stay
\* sections
C31_LocateMakesSections ==
  [][(/\ read'.n = read.n + 1
      /\ read'.line.assignment
      /\ read'.line.key[1].kind # "driver")
       => LocatedAsSections(actions, actions', read'.line.path, read'.node,
                            crashed')]_vars


(***************************************************************************)
(* What dt_action_rename leaves alone.                                     *)
(***************************************************************************)
\* the node that holds the node
OwnerOf(node) == SubSeq(node, 1, Len(node) - 1)

\* the new names with '-' in the place of each '=', ',', '/' and '.'
StrippedNames == {"more", "zoom-", "fit-"}

\* the list without the label
Without(list, label) == SelectSeq(list, LAMBDA l : l # label)

\* the node old of the tree before is the node new of the tree after, with
\* its type, its target and its key, below the same owner, whose other nodes
\* are in the order they were in, and no other node has changed
OnlyRelabelled(before, after, old, new) ==
  /\ DOMAIN after = (DOMAIN before \ {old}) \cup {new}
  /\ OwnerOf(new) = OwnerOf(old)
  /\ after[new].type = before[old].type
  /\ after[new].target = before[old].target
  /\ after[new].key = before[old].key
  /\ after[new].below = before[old].below
  /\ \A p \in DOMAIN before \ {old, OwnerOf(old)} : after[p] = before[p]
  /\ after[OwnerOf(old)].type = before[OwnerOf(old)].type
  /\ after[OwnerOf(old)].target = before[OwnerOf(old)].target
  /\ Without(after[OwnerOf(old)].below, new[Len(new)])
       = Without(before[OwnerOf(old)].below, old[Len(old)])

\* C32: dt_action_rename with a new label changes the label, the translated
\* label and the place of the action among the nodes of its owner and nothing
\* else: every entry of the store that is bound to the action is still bound
\* to it and has the fields it had, the other entries are the ones they were,
\* and the full label of the action ends in the new label without symbols
C32_RenameChangesLabelOnly ==
  [][(last'.op = "rename" /\ ~crashed' /\ DOMAIN actions' \ DOMAIN actions # {})
       => \E old \in DOMAIN actions \ DOMAIN actions',
             new \in DOMAIN actions' \ DOMAIN actions :
            /\ OnlyRelabelled(actions, actions', old, new)
            /\ new[Len(new)] \in StrippedNames
            /\ PathName(new) = PathName(OwnerOf(old)) \o "/" \o new[Len(new)]
            /\ actions'[new].label_translated \in {Q_(name) : name \in NewNames}
            /\ Len(shortcuts') = Len(shortcuts)
            /\ \A i \in 1..Len(shortcuts) :
                 shortcuts'[i] = IF shortcuts[i].action = PathName(old)
                                 THEN [shortcuts[i] EXCEPT !.action = PathName(new)]
                                 ELSE shortcuts[i]]_vars

\* an action with a binding has been renamed to a name with a symbol, below
\* an owner that holds two more nodes
C32_Witness ==
  /\ last.op = "rename" /\ ~crashed
  /\ <<"lib", "fit-">> \in DOMAIN actions
  /\ \E i \in 1..Len(shortcuts) : shortcuts[i].action = "lib/fit-"
  /\ Len(ListBelow(actions, <<"lib">>)) = 3

\* C33 (as amended): a scroll event that reaches the switch of the dispatcher
\* sends one move for each delta that is not zero, a pan for the horizontal
\* delta first and a scroll for the vertical one; the size of the move is the
\* delta negated, so the move goes up for a negative delta and down for a
\* positive one.
ScrollMove(move, delta, up) ==
  IF delta = 0 THEN <<>>
  ELSE <<[move |-> move, size |-> (IF up THEN delta ELSE -delta),
          direction |-> IF (delta > 0) = up THEN DT_SHORTCUT_FLAG_DIR_UP
                        ELSE DT_SHORTCUT_FLAG_DIR_DOWN]>>

MovesOfPointer ==
  [i \in 1..Len(pointer.moves) |->
     [move |-> pointer.moves[i].move, size |-> pointer.moves[i].size,
      direction |-> BitAnd(pointer.moves[i].flags, DT_SHORTCUT_FLAG_DIR_MASK)]]

C33_ScrollIsNegated ==
  pointer.type = "scroll" /\ pointer.handled
    => MovesOfPointer = ScrollMove(DT_SHORTCUT_MOVE_PAN, pointer.x, FALSE)
                       \o ScrollMove(DT_SHORTCUT_MOVE_SCROLL, pointer.y, FALSE)

C33_Witness ==
  /\ pointer.type = "scroll" /\ pointer.handled
  /\ pointer.x = -2 /\ pointer.y = 1
  /\ Len(pointer.moves) = 2
  /\ pointer.moves[1].size = 2 /\ pointer.moves[2].size = -1

\* C33 (as stated): the size of the move is the delta, so the move goes up
\* for a positive delta and down for a negative one.
C33_ScrollAsStated ==
  pointer.type = "scroll" /\ pointer.handled
    => MovesOfPointer = ScrollMove(DT_SHORTCUT_MOVE_PAN, pointer.x, TRUE)
                       \o ScrollMove(DT_SHORTCUT_MOVE_SCROLL, pointer.y, TRUE)

\* C34: the first motion event after a move only records where the pointer
\* is and sends nothing; a later one sends a move only when the pointer is a
\* step (10) away on an axis, the move has size one, and the place the move
\* began has advanced by one step on that axis.
Along(move) ==
  IF move.move = DT_SHORTCUT_MOVE_HORIZONTAL
  THEN /\ Abs(pointer'.x * move_start_x.d - move_start_x.n) >= step_size * move_start_x.d
       /\ move_start_x'.d = move_start_x.d
       /\ Abs(move_start_x'.n - move_start_x.n) = step_size * move_start_x.d
  ELSE /\ Abs(pointer'.y - move_start_y) >= step_size
       /\ Abs(move_start_y' - move_start_y) = step_size

C34_UnitMoves ==
  [][pointer'.type = "motion" /\ pointer'.handled /\ UNCHANGED pressed_keys
       => IF _sc.move = DT_SHORTCUT_MOVE_NONE
          THEN /\ pointer'.moves = <<>>
               /\ move_start_x' = [n |-> pointer'.x, d |-> 1]
               /\ move_start_y' = pointer'.y
          ELSE \A i \in 1..Len(pointer'.moves) :
                 /\ Abs(pointer'.moves[i].size) = 1
                 /\ Along(pointer'.moves[i])]_vars
\* the binding has the key, the press flags, the move and the modifiers of the
\* gesture, and it is not the half of the other direction
ExactlyAs(s, sc) ==
  /\ SameSlot(s, sc)
  /\ ~(HasDirection(s) /\ HasDirection(sc)
       /\ BitAnd(s.flags, DT_SHORTCUT_FLAG_DIR_MASK)
            # BitAnd(sc.flags, DT_SHORTCUT_FLAG_DIR_MASK))

\* C36: process_mapping only invokes a binding whose views include the active
\* view: a binding whose views exclude the active view and a binding without
\* views (a fallback) is never invoked, even when it matches exactly and no
\* binding of the view matches
C36_InvokedIsInView ==
  last.op = "map" /\ mapped.action # ""
    => /\ \E i \in 1..Len(shortcuts) :
            /\ shortcuts[i].action = mapped.action
            /\ SameSlot(shortcuts[i], mapped.sc)
            /\ BitAnd(shortcuts[i].views, view) # 0
       /\ \A i \in 1..Len(shortcuts) :
            BitAnd(shortcuts[i].views, view) = 0
              => shortcuts[i].action # mapped.action

\* a fallback and a binding of the other view have exactly the gesture that
\* was handed to process_mapping, no binding of the view has its slot, and
\* nothing was invoked
C36_Witness ==
  /\ last.op = "map"
  /\ mapped.sc # <<>>
  /\ mapped.action = ""
  /\ \E i \in 1..Len(shortcuts) :
       shortcuts[i].views = 0 /\ ExactlyAs(shortcuts[i], mapped.sc)
  /\ \E i \in 1..Len(shortcuts) :
       /\ shortcuts[i].views # 0 /\ BitAnd(shortcuts[i].views, view) = 0
       /\ ExactlyAs(shortcuts[i], mapped.sc)
  /\ \A i \in 1..Len(shortcuts) :
       BitAnd(shortcuts[i].views, view) # 0 => ~SameSlot(shortcuts[i], mapped.sc)
\* the two bindings share a slot: equal key device, key, press flags, move
\* device, move and modifiers, with equal or absent direction
ShareSlot(a, b) ==
  /\ SameSlot(a, b)
  /\ \/ ~HasDirection(a) \/ ~HasDirection(b)
     \/ BitAnd(a.flags, DT_SHORTCUT_FLAG_DIR_MASK)
          = BitAnd(b.flags, DT_SHORTCUT_FLAG_DIR_MASK)

\* C35: dispatch is deterministic: in every state of the store, for every
\* view and every finalized gesture at most one entry of the view matches the
\* gesture, and no two entries of different actions share a slot while their
\* views overlap
C35_DispatchDeterministic ==
  /\ \A v \in Views, sc \in MapGestures :
       Cardinality({i \in 1..Len(shortcuts) : Matches(shortcuts[i], sc, v)}) <= 1
  /\ \A i, j \in 1..Len(shortcuts) :
       (/\ shortcuts[i].action # shortcuts[j].action
        /\ ShareSlot(shortcuts[i], shortcuts[j]))
         => BitAnd(shortcuts[i].views, shortcuts[j].views) = 0
\* the last binding was made from a widget of an instance of the image
\* operation that is in the pipe, and the widget is not the target
FromInstanceWidget ==
  /\ call.looked
  /\ call.widget.mod # 0
  /\ ~call.widget.target
  /\ iop[call.widget.mod].so = "iop" /\ iop[call.widget.mod].live

\* i for the widget of the instance at place mod of the list: the instance is
\* the i-th of those in the pipe
NumberOf(list, mod) ==
  CHOOSE i \in 1..Len(LiveInstances(list)) : LiveInstances(list)[i] = mod

\* C37: a binding made from a widget of the instance i of N instances in the
\* pipe, not the target, gets the instance +i, or i - N - 1 when N - i < i,
\* which is not 0, and process_mapping takes the same instance i for it
C37_InstanceRoundTrip ==
  FromInstanceWidget =>
    LET N == Len(LiveInstances(iop))
        i == NumberOf(iop, call.widget.mod)
    IN /\ call.s.instance = IF N - i < i THEN i - N - 1 ELSE i
       /\ call.s.instance # 0
       /\ (/\ last.op = "map"
           /\ mapped.action = call.s.action
           /\ mapped.instance = call.s.instance)
            => mapped.mod = call.widget.mod

\* the binding of the widget of the second of three instances was found by
\* process_mapping, which took the second instance for it
C37_Witness ==
  /\ FromInstanceWidget
  /\ Len(LiveInstances(iop)) = 3 /\ call.widget.mod = 2
  /\ call.s.instance = -2
  /\ last.op = "map"
  /\ mapped.action = call.s.action /\ mapped.instance = call.s.instance
  /\ SameSlot(mapped.sc, call.s)
  /\ mapped.mod = 2

\* C38: when dt_shortcut_move completes a gesture while an action is to be
\* assigned, insert_shortcut is called in interactive mode, no binding is
\* invoked, and the action, the widget to be mapped and the instance are
\* cleared whether or not a binding was made; the gesture after that is
\* handed to process_mapping
C38_MappingIsOneShot ==
  [][(_sc'.action = "" \/ <<last, call, mapped, shortcuts, mapping_widget>>'
                                # <<last, call, mapped, shortcuts, mapping_widget>>)
       => IF _sc.action # "" \/ mapping_widget # NoWidget
          THEN /\ last'.op = "assign"
               /\ call'.confirm
               /\ mapped' = mapped
               /\ mapping_widget' = NoWidget
               /\ _sc'.action = ""
               /\ _sc'.instance = 0
          ELSE /\ last'.op = "map"
               /\ mapped'.sc # <<>>
               /\ shortcuts' = shortcuts]_vars

\* a widget was to be mapped, the gesture was one another action is bound
\* to, the prompt was declined and no binding was made; nothing is left to be
\* assigned
C38_Witness ==
  /\ last.op = "assign" /\ ~last.ret /\ last.declined
  /\ call.widget # NoWidget
  /\ mapping_widget = NoWidget /\ _sc.action = "" /\ _sc.instance = 0
\* a key goes up: the key that is no longer in the list
KeyGoesUp == Len(pressed_keys') < Len(pressed_keys)

KeyGoneUp ==
  CHOOSE k \in KeyCodes :
    /\ \E i \in 1..Len(pressed_keys) : pressed_keys[i] = k
    /\ \A i \in 1..Len(pressed_keys') : pressed_keys'[i] # k

LocateCalls ==
  {[owner |-> <<"lib">>, path |-> p] : p \in TreePaths}
  \cup {[owner |-> <<>>, path |-> <<"lib">> \o p] :
          p \in TreePaths \cup {<<"combo", "more">>}}

\* the elements of the two paths differ in the symbols that are stripped only
SameWithoutSymbols(p, q) ==
  /\ Len(p) = Len(q)
  /\ \A k \in 1..Len(p) : path_without_symbols(p[k]) = path_without_symbols(q[k])

\* no node has two nodes of the same label below it
NoTwins(tree) ==
  \A n \in DOMAIN tree :
    \A i, j \in 1..Len(tree[n].below) :
      tree[n].below[i] = tree[n].below[j] => i = j

\* C40: dt_action_locate is idempotent: a second call with the same owner and
\* the same path, or with a path that differs in the stripped symbols only,
\* returns the node of the first call, makes no node and changes no type, and
\* no node has two nodes of the same label below it
C40_LocateIdempotent ==
  \A c \in LocateCalls, d \in LocateCalls :
    (c.owner = d.owner /\ SameWithoutSymbols(c.path, d.path))
      => \A first \in dt_action_locate(actions, c.owner, c.path) :
           ~first.crashed
             => /\ NoTwins(first.tree)
                /\ \A second \in dt_action_locate(first.tree, d.owner, d.path) :
                     /\ ~second.crashed
                     /\ second.node = first.node
                     /\ second.tree = first.tree
====
